---- MODULE Spec2Model ----
(***************************************************************************)
(* Source-synchronisation core of the Antigravity visual editor:           *)
(*   CodeSync (text-level mutation engine), the identity map of ASTParser, *)
(*   DiffPreviewProvider (pending-change staging, accept / reject) and the *)
(*   message dispatch of PreviewPanel.                                     *)
(*                                                                         *)
(* A document text is a sequence of lexical units.  Every unit that the    *)
(* scanners of CodeSync treat as one step is one unit here: a tag          *)
(* "<...>", a comment opener "<!--", a comment closer "-->", a run of      *)
(* text, a run of blanks and the newline.  Offsets are 0-based positions   *)
(* in that sequence, as the JavaScript offsets are positions in the        *)
(* string.                                                                 *)
(***************************************************************************)
EXTENDS Integers, Sequences, FiniteSets, TLC

\* ------------------------------------------------------------------------
\* Lexical units
\* ------------------------------------------------------------------------
NoStyle == [has |-> FALSE, items |-> <<>>]

\* an absent identity (agId undefined, no data-ag-id attribute); the
\* identities themselves are the values of idCounter, 0, 1, 2, ...
NoId == -1

Open(tag) == [k |-> "open", tag |-> tag, id |-> "", cls |-> "", style |-> NoStyle, sc |-> "no", agid |-> NoId]
OpenId(tag, id) == [Open(tag) EXCEPT !.id = id]
Close(tag) == [k |-> "close", tag |-> tag]
Text(v) == [k |-> "text", v |-> v]
NL == [k |-> "nl"]
WS == [k |-> "ws"]
COpen == [k |-> "copen"]
DelOpen == [k |-> "delopen"]
CClose == [k |-> "cclose"]
Decl == [k |-> "decl"]
Ret == [k |-> "ret"]

\* a style attribute value is a sequence of declarations and ";" separators
StyleDecl(p, v) == [d |-> "decl", p |-> p, v |-> v]
Semi == [d |-> "semi"]

\* the unit begins with the character "<"
StartsWithLt(t) == t.k \in {"open", "close", "copen", "delopen", "decl"}
\* the unit begins with "<!--"
IsCommentOpen(t) == t.k \in {"copen", "delopen"}

\* ------------------------------------------------------------------------
\* JavaScript string primitives on unit sequences
\* ------------------------------------------------------------------------
\* a value under a name: With(e, LAMBDA x : body) is body with x = e
With(v, F(_)) == F(v)

Clamp(x, n) == IF x < 0 THEN 0 ELSE IF x > n THEN n ELSE x

\* the units of s from the smaller to the larger of two offsets
Between(s, ca, cb) ==
    SubSeq(s, (IF ca <= cb THEN ca ELSE cb) + 1, IF ca <= cb THEN cb ELSE ca)

\* String.prototype.substring(a, b): arguments clamped, swapped when a > b
Substring(s, a, b) == Between(s, Clamp(a, Len(s)), Clamp(b, Len(s)))

SubstringFrom(s, a) == Substring(s, a, Len(s))

CharAt(s, i) == s[i + 1]

MinOf(S) == CHOOSE i \in S : \A j \in S : i <= j

FirstIdx(S) == IF S = {} THEN -1 ELSE MinOf(S)

\* content.indexOf('<', pos)
IndexOfLt(content, pos) ==
    FirstIdx({i \in Clamp(pos, Len(content)) .. Len(content) - 1 : StartsWithLt(CharAt(content, i))})

\* content.indexOf('-->', pos)
IndexOfCommentEnd(content, pos) ==
    FirstIdx({i \in Clamp(pos, Len(content)) .. Len(content) - 1 : CharAt(content, i).k = "cclose"})

VoidTags == {"br", "hr", "img", "input", "meta", "link", "area", "base", "col", "embed", "param", "source", "track", "wbr"}

\* openTag.endsWith('/>') || selfClosingTags.includes(tagName)
IsSelfClosing(t) == t.sc = "end" \/ t.tag \in VoidTags

\* ------------------------------------------------------------------------
\* Selector paths.  A path is the sequence of its ">"-separated segments;
\* a segment is written tag? (#id)? (.class)? (:nth-child(N))? and is
\* represented by the parts that were written ("" and 0 when absent).
\* ------------------------------------------------------------------------
Seg(tag, id, cls, nth) == [tag |-> tag, id |-> id, cls |-> cls, nth |-> nth]

PreviewContentSeg == Seg("", "preview-content", "", 0)

\* a is a substring of b, for the names the model uses
SubstringPairs == {<<"card", "card-title">>, <<"color", "background-color">>}

IsSubstring(a, b) == a = b \/ <<a, b>> \in SubstringPairs

\* CodeSync.sanitizePath: drop a leading "#preview-content > "
sanitizePath(path) ==
    IF Len(path) >= 2 /\ Head(path) = PreviewContentSeg THEN Tail(path) ELSE path

\* CodeSync.parsePathSegment: the tag defaults to div
parsePathSegment(segment) ==
    [tagName |-> IF segment.tag = "" THEN "div" ELSE segment.tag,
     id |-> segment.id, className |-> segment.cls, nthChild |-> segment.nth]

NotFound == [found |-> FALSE, start |-> 0, end |-> 0, openTagEnd |-> 0, closeTagStart |-> 0]

Location(s, e, o, c) == [found |-> TRUE, start |-> s, end |-> e, openTagEnd |-> o, closeTagStart |-> c]

\* CodeSync.findMatchingCloseTag: depth-aware scan from searchStart for the
\* close tag of tagName; start = end = -1 when there is none
RECURSIVE MatchCloseScan(_, _, _, _)
MatchCloseScan(content, tagName, pos, depth) ==
    IF ~(pos < Len(content) /\ depth > 0) THEN [start |-> -1, end |-> -1]
    ELSE With(IndexOfLt(content, pos), LAMBDA tagStart :
         IF tagStart = -1 THEN [start |-> -1, end |-> -1]
         ELSE With(CharAt(content, tagStart), LAMBDA t :
              IF IsCommentOpen(t)
              THEN MatchCloseScan(content, tagName,
                                  With(IndexOfCommentEnd(content, tagStart), LAMBDA commentEnd :
                                       IF commentEnd # -1 THEN commentEnd + 1 ELSE Len(content)),
                                  depth)
              ELSE IF t.k = "close" /\ t.tag = tagName /\ depth - 1 = 0
              THEN [start |-> tagStart, end |-> tagStart + 1]
              ELSE MatchCloseScan(content, tagName, tagStart + 1,
                                  IF t.k = "close" /\ t.tag = tagName THEN depth - 1
                                  ELSE IF t.k = "open" /\ ~IsSelfClosing(t) /\ t.tag = tagName
                                  THEN depth + 1
                                  ELSE depth)))

findMatchingCloseTag(content, searchStart, tagName) ==
    MatchCloseScan(content, tagName, searchStart, 1)

\* the text of an open tag contains the string cls
OpenTagIncludes(t, cls) ==
    \/ IsSubstring(cls, t.tag)
    \/ IsSubstring(cls, t.id)
    \/ IsSubstring(cls, t.cls)

\* CodeSync.findElementInRange, id branch: the first open tag inside the
\* range that has the segment's tag and id, wherever it stands
FindByIdInRange(content, rangeStart, rangeEnd, info) ==
    With(FirstIdx({i \in Clamp(rangeStart, Len(content)) .. Clamp(rangeEnd, Len(content)) - 1 :
                    /\ CharAt(content, i).k = "open"
                    /\ CharAt(content, i).tag = info.tagName
                    /\ CharAt(content, i).id = info.id}),
         LAMBDA elementStart :
         IF elementStart = -1 THEN NotFound
         ELSE With(findMatchingCloseTag(content, elementStart + 1, info.tagName),
                   LAMBDA closeResult :
                   IF closeResult.start # -1
                   THEN Location(elementStart, closeResult.end, elementStart + 1, closeResult.start)
                   ELSE NotFound))

\* CodeSync.findElementInRange, scan branch: the direct children of the
\* range (depth 0) that match the tag (and class) are counted, and the one
\* with index nthChild - 1 (or the first) is the result
\* an open tag at depth 0 with the segment's tag (and class)
Matches(t, info, depth) ==
    /\ depth = 0
    /\ t.tag = info.tagName
    /\ (info.className # "" => OpenTagIncludes(t, info.className))

\* the element that opens at tagStart when it is the wanted match: a
\* self-closing tag is its own span, any other needs its close tag
TargetAt(content, tagStart, t, isTarget) ==
    IF ~isTarget THEN NotFound
    ELSE IF IsSelfClosing(t)
    THEN Location(tagStart, tagStart + 1, tagStart + 1, tagStart + 1)
    ELSE With(findMatchingCloseTag(content, tagStart + 1, t.tag), LAMBDA closeResult :
              IF closeResult.start # -1
              THEN Location(tagStart, closeResult.end, tagStart + 1, closeResult.start)
              ELSE NotFound)

RECURSIVE RangeScan(_, _, _, _, _, _)
RangeScan(content, rangeEnd, info, pos, depth, foundCount) ==
    IF ~(pos < rangeEnd) THEN NotFound
    ELSE With(IndexOfLt(content, pos), LAMBDA tagStart :
         IF tagStart = -1 \/ tagStart >= rangeEnd THEN NotFound
         ELSE With(CharAt(content, tagStart), LAMBDA t :
              IF IsCommentOpen(t)
              THEN RangeScan(content, rangeEnd, info,
                             With(IndexOfCommentEnd(content, tagStart), LAMBDA commentEnd :
                                  IF commentEnd # -1 THEN commentEnd + 1 ELSE rangeEnd),
                             depth, foundCount)
              ELSE IF t.k = "close"
              THEN RangeScan(content, rangeEnd, info, tagStart + 1,
                             IF depth > 0 THEN depth - 1 ELSE depth, foundCount)
              ELSE IF t.k # "open"
              THEN RangeScan(content, rangeEnd, info, tagStart + 1, depth, foundCount)
              ELSE With(Matches(t, info, depth), LAMBDA matches :
                   With(TargetAt(content, tagStart, t,
                                 matches /\ foundCount = (IF info.nthChild # 0
                                                          THEN info.nthChild - 1 ELSE 0)),
                        LAMBDA target :
                        IF target.found THEN target
                        ELSE RangeScan(content, rangeEnd, info, tagStart + 1,
                                       IF IsSelfClosing(t) THEN depth ELSE depth + 1,
                                       IF matches THEN foundCount + 1 ELSE foundCount)))))

findElementInRange(content, rangeStart, rangeEnd, info) ==
    IF info.id # ""
    THEN FindByIdInRange(content, rangeStart, rangeEnd, info)
    ELSE RangeScan(content, rangeEnd, info, rangeStart, 0, 0)

\* CodeSync.findElementByPath, the search window: inside <body>, from a
\* "return (" of component source, or the whole text
Window(content, bodyOpen, bodyClose, returnAt) ==
    IF bodyOpen # -1
    THEN [start |-> bodyOpen + 1, end |-> IF bodyClose # -1 THEN bodyClose ELSE Len(content)]
    ELSE IF returnAt # -1
    THEN [start |-> returnAt, end |-> Len(content)]
    ELSE [start |-> 0, end |-> Len(content)]

SearchWindow(content) ==
    Window(content,
           FirstIdx({i \in 0 .. Len(content) - 1 :
                        CharAt(content, i).k = "open" /\ CharAt(content, i).tag = "body"}),
           FirstIdx({i \in 0 .. Len(content) - 1 :
                        CharAt(content, i).k = "close" /\ CharAt(content, i).tag = "body"}),
           FirstIdx({i \in 0 .. Len(content) - 2 :
                        /\ CharAt(content, i).k = "ret"
                        /\ \E j \in i + 1 .. Len(content) - 1 :
                              /\ StartsWithLt(CharAt(content, j))
                              /\ \A m \in i + 1 .. j - 1 : CharAt(content, m).k \in {"ws", "nl"}}))

\* a variant of PathWalk that goes on to the next match of a segment when
\* the segments after it are not found inside the first
RECURSIVE PathWalkRetrying(_, _, _, _, _)
PathWalkRetrying(content, segments, segIdx, searchStart, current) ==
    IF segIdx > Len(segments) THEN current
    ELSE With(findElementInRange(content, searchStart, current.closeTagStart,
                                 parsePathSegment(segments[segIdx])),
              LAMBDA found :
              IF ~found.found THEN NotFound
              ELSE With(PathWalkRetrying(content, segments, segIdx + 1, found.openTagEnd, found),
                        LAMBDA inside :
                        IF inside.found \/ found.end <= searchStart THEN inside
                        ELSE PathWalkRetrying(content, segments, segIdx, found.end, current)))

\* CodeSync.findElementByPath: one findElementInRange per segment, each
\* inside the element found for the segment before
RECURSIVE PathWalk(_, _, _, _, _)
PathWalk(content, segments, segIdx, searchStart, current) ==
    IF segIdx > Len(segments) THEN current
    ELSE With(findElementInRange(content, searchStart, current.closeTagStart,
                                 parsePathSegment(segments[segIdx])),
              LAMBDA found :
              IF ~found.found THEN NotFound
              ELSE PathWalk(content, segments, segIdx + 1, found.openTagEnd, found))

findElementByPath(content, path) ==
    With(SearchWindow(content), LAMBDA w :
         PathWalk(content, path, 1, w.start, Location(w.start, w.end, w.start, w.end)))

\* ------------------------------------------------------------------------
\* CodeSync: the mutation engine.  Every operation yields
\*   [ok, newContent, description]: ok = FALSE is the early "return false"
\*   (an error message was shown and applyEdit was not called).
\* ------------------------------------------------------------------------
\* a variant of Failure that reports an empty text as computed
FailureAsEmptyText == [ok |-> TRUE, newContent |-> <<>>, description |-> ""]

Failure == [ok |-> FALSE, newContent |-> <<>>, description |-> ""]

Computed(newContent, description) == [ok |-> TRUE, newContent |-> newContent, description |-> description]

\* a string | null value of the source
Null == [isNull |-> TRUE, text |-> <<>>]

Str(text) == [isNull |-> FALSE, text |-> text]

\* JavaScript truthiness of a string | null: null and "" are falsy
Truthy(r) == ~r.isNull /\ r.text # <<>>

\* CodeSync.parseElementPath: only the last segment is read; an id is read
\* only from a segment that starts with "#", and then the tag is div
parseElementPath(path) ==
    IF path = <<>> THEN [isNull |-> TRUE, tagName |-> "", id |-> "", className |-> "", nthChild |-> 0]
    ELSE With(path[Len(path)], LAMBDA lastSegment :
              [isNull |-> FALSE,
               tagName |-> IF lastSegment.tag # "" THEN lastSegment.tag
                           ELSE IF lastSegment.id # "" THEN "div" ELSE "?",
               id |-> IF lastSegment.tag = "" THEN lastSegment.id ELSE "",
               className |-> lastSegment.cls,
               nthChild |-> lastSegment.nth])

\* CodeSync.buildElementRegex applied by content.match: the offset of the
\* first open tag the regular expression matches, -1 when none
RegexMatchesTag(t, pathInfo) ==
    /\ t.k = "open"
    /\ t.tag = pathInfo.tagName
    /\ IF pathInfo.id # "" THEN t.id = pathInfo.id
       ELSE pathInfo.className # "" => (t.cls # "" /\ IsSubstring(pathInfo.className, t.cls))

MatchElementRegex(content, pathInfo) ==
    FirstIdx({i \in 0 .. Len(content) - 1 : RegexMatchesTag(CharAt(content, i), pathInfo)})

\* content.indexOf('</tag>', from)
IndexOfCloseTag(content, tagName, from) ==
    FirstIdx({i \in Clamp(from, Len(content)) .. Len(content) - 1 :
        CharAt(content, i).k = "close" /\ CharAt(content, i).tag = tagName})

\* CodeSync.simpleTextReplace: the first <tag ...>text</tag> with no "<"
\* between the tags
\* the "<" that follows the tag at i opens the close tag of tagName
ClosedNext(content, j, tagName) == j # -1 /\ CharAt(content, j) = Close(tagName)

simpleTextReplace(content, tagName, newText) ==
    With(FirstIdx({i \in 0 .. Len(content) - 2 :
                  /\ CharAt(content, i).k = "open"
                  /\ CharAt(content, i).tag = tagName
                  /\ ClosedNext(content, IndexOfLt(content, i + 1), tagName)}),
         LAMBDA hit :
         IF hit = -1 THEN Failure
         ELSE Computed(Substring(content, 0, hit + 1) \o newText
                         \o SubstringFrom(content, IndexOfLt(content, hit + 1)),
                       "Text Edit"))

\* the text between the open tag at startIndex and the next close tag of
\* the same name is replaced
ReplaceInner(content, startIndex, closeIndex, newText) ==
    IF closeIndex = -1 THEN Failure
    ELSE Computed(Substring(content, 0, startIndex + 1) \o newText
                    \o SubstringFrom(content, closeIndex),
                  "Text Edit")

\* CodeSync.applyTextEdit up to its call of applyEdit
applyTextEdit(content, elementPath, newText) ==
    With(parseElementPath(elementPath), LAMBDA pathInfo :
         IF pathInfo.isNull THEN Failure
         ELSE With(MatchElementRegex(content, pathInfo), LAMBDA startIndex :
                   IF startIndex = -1 THEN simpleTextReplace(content, pathInfo.tagName, newText)
                   ELSE ReplaceInner(content, startIndex,
                                     IndexOfCloseTag(content, pathInfo.tagName, startIndex + 1),
                                     newText)))

\* property.replace(/([a-z])([A-Z])/g, '$1-$2').toLowerCase()
CamelToKebab(property) ==
    CASE property = "fontSize" -> "font-size"
      [] property = "backgroundColor" -> "background-color"
      [] OTHER -> property

\* the written property name ends with cssProperty
SuffixPairs == {<<"color", "background-color">>}

EndsWithProperty(p, cssProperty) == p = cssProperty \/ <<cssProperty, p>> \in SuffixPairs

StyleHasProperty(items, cssProperty) ==
    \E i \in 1 .. Len(items) : items[i].d = "decl" /\ EndsWithProperty(items[i].p, cssProperty)

\* existingStyle.replace(propRegex, `${cssProperty}: ${value};`): every
\* match (the property name, its value and a following ";") is rewritten
RECURSIVE StyleReplace(_, _, _)
StyleReplace(items, cssProperty, value) ==
    IF items = <<>> THEN <<>>
    ELSE IF Head(items).d = "decl" /\ EndsWithProperty(Head(items).p, cssProperty)
    THEN <<StyleDecl(Head(items).p, value), Semi>>
            \o StyleReplace(IF Len(items) >= 2 /\ items[2] = Semi
                            THEN SubSeq(items, 3, Len(items)) ELSE Tail(items),
                            cssProperty, value)
    ELSE <<Head(items)>> \o StyleReplace(Tail(items), cssProperty, value)

\* the new open tag of CodeSync.applyStyleEdit
NewStyle(existingStyle, cssProperty, value) ==
    IF StyleHasProperty(existingStyle, cssProperty)
    THEN StyleReplace(existingStyle, cssProperty, value)
    ELSE IF existingStyle # <<>> /\ existingStyle[Len(existingStyle)] = Semi
    THEN existingStyle \o <<StyleDecl(cssProperty, value), Semi>>
    ELSE existingStyle \o <<Semi, StyleDecl(cssProperty, value), Semi>>

NewOpeningTag(t, cssProperty, value) ==
    IF t.style.has
    THEN [t EXCEPT !.style = [has |-> TRUE, items |-> NewStyle(t.style.items, cssProperty, value)]]
    ELSE [t EXCEPT !.style = [has |-> TRUE, items |-> <<StyleDecl(cssProperty, value), Semi>>],
                   !.sc = IF t.sc = "end" THEN "mid" ELSE t.sc]

\* CodeSync.applyStyleEdit up to its call of applyEdit
\* the open tag at offset at is rewritten with the property set
RestyleAt(content, at, cssProperty, value) ==
    IF at = -1 THEN Failure
    ELSE Computed(Substring(content, 0, at)
                    \o <<NewOpeningTag(CharAt(content, at), cssProperty, value)>>
                    \o SubstringFrom(content, at + 1),
                  cssProperty)

applyStyleEdit(content, elementPath, property, value) ==
    With(parseElementPath(elementPath), LAMBDA pathInfo :
         IF pathInfo.isNull THEN Failure
         ELSE RestyleAt(content, MatchElementRegex(content, pathInfo),
                        CamelToKebab(property), value))

\* ------------------------------------------------------------------------
\* ASTParser: identity lookups.  idMap is the module-level lastIdMap, a
\* function from the issued identities to [start, end, tagName].
\* ------------------------------------------------------------------------
\* ASTParser.findElementById: a lookup in the stored map, not in content
findElementById(idMap, content, id) ==
    IF id \in DOMAIN idMap
    THEN [found |-> TRUE, start |-> idMap[id].start, end |-> idMap[id].end]
    ELSE [found |-> FALSE, start |-> 0, end |-> 0]

\* ASTParser.deleteElementById
deleteElementById(idMap, content, id) ==
    With(findElementById(idMap, content, id), LAMBDA element :
         IF ~element.found THEN Null
         ELSE Str(Substring(content, 0, element.start) \o SubstringFrom(content, element.end)))

\* elementContent.replace(/\s*data-ag-id=["'][^"']*["']/, ''): the first
\* marker attribute of the copy is removed
RemoveFirstAgId(elementContent) ==
    With(FirstIdx({i \in 0 .. Len(elementContent) - 1 :
                  CharAt(elementContent, i).k = "open" /\ CharAt(elementContent, i).agid # NoId}),
         LAMBDA at :
         IF at = -1 THEN elementContent
         ELSE [elementContent EXCEPT ![at + 1].agid = NoId])

\* ASTParser.duplicateElementById
duplicateElementById(idMap, content, id) ==
    With(findElementById(idMap, content, id), LAMBDA element :
         IF ~element.found THEN Null
         ELSE Str(Substring(content, 0, element.end) \o <<NL>>
                    \o RemoveFirstAgId(Substring(content, element.start, element.end))
                    \o SubstringFrom(content, element.end)))

\* CodeSync.applyElementDelete up to its call of applyEdit
\* the text without the span of the element the path resolves to
DeletedByPath(content, elementLocation) ==
    IF elementLocation.found
    THEN Str(Substring(content, 0, elementLocation.start)
               \o SubstringFrom(content, elementLocation.end))
    ELSE Null

\* if (!newContent) { newContent = <the path strategy> }
OrElse(first, second) == IF Truthy(first) THEN first ELSE second

\* if (!newContent) { showErrorMessage; return false }
ComputedIfTruthy(newContent, description) ==
    IF ~Truthy(newContent) THEN Failure ELSE Computed(newContent.text, description)

applyElementDelete(idMap, content, elementPath, agId) ==
    ComputedIfTruthy(
        OrElse(IF agId # NoId THEN deleteElementById(idMap, content, agId) ELSE Null,
               DeletedByPath(content, findElementByPath(content, sanitizePath(elementPath)))),
        "Element Deleted")

\* CodeSync.applyElementDuplicate up to its call of applyEdit
\* the text with a copy of the element the path resolves to after it
DuplicatedByPath(content, elementLocation) ==
    IF elementLocation.found
    THEN Str(Substring(content, 0, elementLocation.end) \o <<NL>>
               \o Substring(content, elementLocation.start, elementLocation.end)
               \o SubstringFrom(content, elementLocation.end))
    ELSE Null

applyElementDuplicate(idMap, content, elementPath, agId) ==
    ComputedIfTruthy(
        OrElse(IF agId # NoId THEN duplicateElementById(idMap, content, agId) ELSE Null,
               DuplicatedByPath(content, findElementByPath(content, sanitizePath(elementPath)))),
        "Element Duplicated")

\* CodeSync.applyElementMove, the scan of the parent's inner content for
\* the offsets of its direct children
RECURSIVE DirectChildScan(_, _, _, _)
DirectChildScan(inner, i, depth, positions) ==
    IF ~(i < Len(inner)) THEN positions
    ELSE With(CharAt(inner, i), LAMBDA t :
         IF IsCommentOpen(t)
         THEN DirectChildScan(inner,
                              With(IndexOfCommentEnd(inner, i), LAMBDA commentEnd :
                                   IF commentEnd # -1 THEN commentEnd + 1 ELSE Len(inner)),
                              depth, positions)
         ELSE DirectChildScan(inner, i + 1,
                              IF t.k = "close" THEN (IF depth > 0 THEN depth - 1 ELSE depth)
                              ELSE IF t.k = "open" /\ ~IsSelfClosing(t) THEN depth + 1
                              ELSE depth,
                              IF t.k = "open" /\ depth = 0 THEN Append(positions, i)
                              ELSE positions))

\* a variant of InsertPosition that always appends to the parent
InsertPositionAtEnd(parentLocation, directChildPositions, newIndex) ==
    parentLocation.closeTagStart

\* CodeSync.applyElementMove up to its call of applyEdit
\* the offset at which the moved element is inserted in the parent
InsertPosition(parentLocation, directChildPositions, newIndex) ==
    IF newIndex <= 0 \/ Len(directChildPositions) = 0 THEN parentLocation.openTagEnd
    ELSE IF newIndex >= Len(directChildPositions) THEN parentLocation.closeTagStart
    ELSE parentLocation.openTagEnd + directChildPositions[newIndex + 1]

\* the element's HTML is inserted, on a line of its own, at insertPosition
InsertAt(removed, insertPosition, elementHtml) ==
    Computed(Substring(removed, 0, insertPosition) \o <<NL, WS>> \o elementHtml
               \o SubstringFrom(removed, insertPosition),
             "Element Rearranged")

\* the second half of applyElementMove: the parent is resolved in the text
\* from which the element has been removed
MoveInto(removed, elementHtml, parentLocation, newIndex) ==
    IF ~parentLocation.found THEN Failure
    ELSE InsertAt(removed,
                  InsertPosition(parentLocation,
                                 DirectChildScan(Substring(removed, parentLocation.openTagEnd,
                                                           parentLocation.closeTagStart),
                                                 0, 0, <<>>),
                                 newIndex),
                  elementHtml)

\* the text without the element's span
Removed(content, elementLocation) ==
    Substring(content, 0, elementLocation.start) \o SubstringFrom(content, elementLocation.end)

MoveFrom(removed, elementHtml, newParentPath, newIndex) ==
    MoveInto(removed, elementHtml, findElementByPath(removed, sanitizePath(newParentPath)),
             newIndex)

applyElementMove(content, elementPath, newParentPath, newIndex) ==
    With(findElementByPath(content, sanitizePath(elementPath)), LAMBDA elementLocation :
         IF ~elementLocation.found THEN Failure
         ELSE MoveFrom(Removed(content, elementLocation),
                       Substring(content, elementLocation.start, elementLocation.end),
                       newParentPath, newIndex))

\* ASTParser.parseHTML: the element nodes of content in document order
\* (the order in which processNode calls generateId), each with the offsets
\* htmlparser2 reports.  st holds the nodes and the stack of open nodes.
RECURSIVE ParseScan(_, _, _)
ParseScan(content, i, st) ==
    IF i >= Len(content)
    THEN [n \in 1 .. Len(st.nodes) |->
            IF n \in {st.stack[j] : j \in 1 .. Len(st.stack)}
            THEN [st.nodes[n] EXCEPT !.end = Len(content)] ELSE st.nodes[n]]
    ELSE LET t == CharAt(content, i) IN
         IF IsCommentOpen(t)
         THEN LET commentEnd == IndexOfCommentEnd(content, i) IN
              ParseScan(content, IF commentEnd # -1 THEN commentEnd + 1 ELSE Len(content), st)
         ELSE IF t.k = "open"
         THEN LET node == [start |-> i, end |-> i + 1, tagName |-> t.tag]
              IN  ParseScan(content, i + 1,
                            [nodes |-> Append(st.nodes, node),
                             stack |-> IF t.tag \in VoidTags THEN st.stack
                                       ELSE Append(st.stack, Len(st.nodes) + 1)])
         ELSE IF t.k = "close"
         THEN LET open == {j \in 1 .. Len(st.stack) : st.nodes[st.stack[j]].tagName = t.tag}
              IN  IF open = {} THEN ParseScan(content, i + 1, st)
                  ELSE LET pos == CHOOSE j \in open : \A m \in open : m <= j
                           closed == {st.stack[j] : j \in pos .. Len(st.stack)}
                       IN  ParseScan(content, i + 1,
                                     [nodes |-> [n \in 1 .. Len(st.nodes) |->
                                                    IF n \in closed
                                                    THEN [st.nodes[n] EXCEPT !.end = i + 1]
                                                    ELSE st.nodes[n]],
                                      stack |-> SubSeq(st.stack, 1, pos - 1)])
         ELSE ParseScan(content, i + 1, st)

parseHTML(content) == ParseScan(content, 0, [nodes |-> <<>>, stack |-> <<>>])

\* the tags injectElementIds does not mark
SkippedTags == {"!doctype", "html", "head", "body", "meta", "link", "script", "style", "title"}

\* ASTParser.injectElementIds, the returned idMap, which becomes lastIdMap:
\* node n of the parse (0-based) carries the identity counter + n
injectElementIds(content, counter) ==
    With(parseHTML(content), LAMBDA nodes :
         [id \in {counter + n - 1 : n \in {m \in 1 .. Len(nodes) :
                                             nodes[m].tagName \notin SkippedTags}}
             |-> nodes[id - counter + 1]])

\* the number of generateId calls of one parse
IdsUsed(content) == Len(parseHTML(content))

\* the injected attribute ` data-ag-id="id"`, a unit of the preview text
Marker(id) == [k |-> "marker", agid |-> id]

\* a variant of Descending that orders the nodes by ascending start
AscendingStart(nodes) ==
    [i \in 1 .. Len(nodes) |->
        CHOOSE n \in 1 .. Len(nodes) :
            Cardinality({m \in 1 .. Len(nodes) : nodes[m].start < nodes[n].start}) = i - 1]

\* allNodes.sort((a, b) => b.start - a.start): the indices of the nodes by
\* descending start
Descending(nodes) ==
    [i \in 1 .. Len(nodes) |->
        CHOOSE n \in 1 .. Len(nodes) :
            Cardinality({m \in 1 .. Len(nodes) : nodes[m].start > nodes[n].start}) = i - 1]

\* result.substring(tagStart).match(/^<tagName(\s|>|\/>)/i)
TagMatchesAt(result, tagStart, tagName) ==
    /\ tagStart < Len(result)
    /\ CharAt(result, tagStart).k = "open"
    /\ CharAt(result, tagStart).tag = tagName

\* the loop of injectElementIds over the sorted nodes: the attribute is
\* inserted in the open tag found at node.start of the text injected so
\* far, and the node's offsets are stored under its identity
RECURSIVE InjectLoop(_, _, _, _)
InjectLoop(r, nodes, order, counter) ==
    IF order = <<>> THEN r
    ELSE LET n == Head(order)
             node == nodes[n]
             id == counter + n - 1
         IN  IF node.tagName \in SkippedTags \/ ~TagMatchesAt(r.content, node.start, node.tagName)
             THEN InjectLoop(r, nodes, Tail(order), counter)
             ELSE InjectLoop([content |-> Substring(r.content, 0, node.start + 1)
                                            \o <<Marker(id)>>
                                            \o SubstringFrom(r.content, node.start + 1),
                              idMap |-> [i \in DOMAIN r.idMap \cup {id} |->
                                            IF i = id THEN node ELSE r.idMap[i]]],
                             nodes, Tail(order), counter)

\* ASTParser.injectElementIds, both results: the text with the attributes
\* and the idMap
InjectedResult(content, counter) ==
    InjectLoop([content |-> content, idMap |-> <<>>], parseHTML(content),
               Descending(parseHTML(content)), counter)

\* ------------------------------------------------------------------------
\* DiffPreviewProvider: the line diff.  Line numbers are 0-based, as in
\* the source.
\* ------------------------------------------------------------------------
\* content.split('\n'): at least one line
RECURSIVE SplitLines(_)
SplitLines(content) ==
    With(FirstIdx({i \in 0 .. Len(content) - 1 : CharAt(content, i).k = "nl"}), LAMBDA nl :
         IF nl = -1 THEN <<content>>
         ELSE <<Substring(content, 0, nl)>> \o SplitLines(SubstringFrom(content, nl + 1)))

\* lines.join('\n')
RECURSIVE JoinLines(_)
JoinLines(lines) ==
    IF lines = <<>> THEN <<>>
    ELSE IF Len(lines) = 1 THEN lines[1]
    ELSE lines[1] \o <<NL>> \o JoinLines(Tail(lines))

\* line.trim()
RECURSIVE Trim(_)
Trim(line) ==
    IF line = <<>> THEN <<>>
    ELSE IF Head(line).k = "ws" THEN Trim(Tail(line))
    ELSE IF line[Len(line)].k = "ws" THEN Trim(SubSeq(line, 1, Len(line) - 1))
    ELSE line

IsBlank(line) == Trim(line) = <<>>

\* a variant of the forward pass that matches a new line to the first old
\* line of the same content, matched before or not
RECURSIVE ForwardPassFirst(_, _, _, _)
ForwardPassFirst(oldLines, newLines, newIdx, st) ==
    IF newIdx >= Len(newLines) THEN st
    ELSE LET first == FirstIdx({o \in 0 .. Len(oldLines) - 1 : oldLines[o + 1] = newLines[newIdx + 1]})
         IN  IF first # -1
             THEN ForwardPassFirst(oldLines, newLines, newIdx + 1,
                                   [matchedOld |-> st.matchedOld \cup {first},
                                    matchedNew |-> st.matchedNew \cup {newIdx},
                                    expectedOldIdx |-> first + 1])
             ELSE ForwardPassFirst(oldLines, newLines, newIdx + 1, st)

\* calculateDiff, the forward pass over the new lines: st holds matchedOld,
\* matchedNew and expectedOldIdx
RECURSIVE ForwardPass(_, _, _, _)
ForwardPass(oldLines, newLines, newIdx, st) ==
    IF newIdx >= Len(newLines) THEN st
    ELSE LET newLine == newLines[newIdx + 1]
             e == st.expectedOldIdx
             candidates == {o \in 0 .. Len(oldLines) - 1 :
                                oldLines[o + 1] = newLine /\ o \notin st.matchedOld}
             Dist(o) == IF o >= e THEN o - e ELSE e - o
             bestMatch == IF candidates = {} THEN -1
                          ELSE CHOOSE o \in candidates :
                                 \A c \in candidates : Dist(o) < Dist(c) \/ (Dist(o) = Dist(c) /\ o <= c)
         IN  IF e < Len(oldLines) /\ e \notin st.matchedOld /\ oldLines[e + 1] = newLine
             THEN ForwardPass(oldLines, newLines, newIdx + 1,
                              [matchedOld |-> st.matchedOld \cup {e},
                               matchedNew |-> st.matchedNew \cup {newIdx},
                               expectedOldIdx |-> e + 1])
             ELSE IF bestMatch # -1
             THEN ForwardPass(oldLines, newLines, newIdx + 1,
                              [matchedOld |-> st.matchedOld \cup {bestMatch},
                               matchedNew |-> st.matchedNew \cup {newIdx},
                               expectedOldIdx |-> IF bestMatch >= e THEN bestMatch + 1 ELSE e])
             ELSE ForwardPass(oldLines, newLines, newIdx + 1, st)

\* the elements of a set of numbers in increasing order
RECURSIVE Ascending(_)
Ascending(S) == IF S = {} THEN <<>> ELSE <<MinOf(S)>> \o Ascending(S \ {MinOf(S)})

\* a variant of the pass over the old lines that anchors a deleted line
\* at its old line number whatever was deleted before it, and does not
\* clamp
RECURSIVE DeletedPassUnshifted(_, _, _, _, _, _)
DeletedPassUnshifted(oldLines, newLines, m, lineNum, deletionOffset, deleted) ==
    IF lineNum >= Len(oldLines) THEN deleted
    ELSE IF lineNum \notin m.matchedOld /\ ~IsBlank(oldLines[lineNum + 1])
    THEN DeletedPassUnshifted(oldLines, newLines, m, lineNum + 1, deletionOffset,
                              Append(deleted, [afterLine |-> lineNum + 1,
                                               content |-> oldLines[lineNum + 1]]))
    ELSE DeletedPassUnshifted(oldLines, newLines, m, lineNum + 1, deletionOffset, deleted)

\* calculateDiff, the pass over the old lines that collects the deleted
\* lines with their display anchor
RECURSIVE DeletedPass(_, _, _, _, _, _)
DeletedPass(oldLines, newLines, m, lineNum, deletionOffset, deleted) ==
    IF lineNum >= Len(oldLines) THEN deleted
    ELSE IF lineNum \notin m.matchedOld
    THEN IF ~IsBlank(oldLines[lineNum + 1])
         THEN LET afterLine == lineNum + deletionOffset
                  hi == IF afterLine < Len(newLines) - 1 THEN afterLine ELSE Len(newLines) - 1
                  clamped == IF hi > 0 THEN hi ELSE 0
              IN  DeletedPass(oldLines, newLines, m, lineNum + 1, deletionOffset - 1,
                              Append(deleted, [afterLine |-> clamped, content |-> oldLines[lineNum + 1]]))
         ELSE DeletedPass(oldLines, newLines, m, lineNum + 1, deletionOffset, deleted)
    ELSE LET ni == FirstIdx({n \in m.matchedNew : newLines[n + 1] = oldLines[lineNum + 1]})
             expectedNewLine == lineNum + deletionOffset
         IN  DeletedPass(oldLines, newLines, m, lineNum + 1,
                         IF ni # -1 /\ ni > expectedNewLine
                         THEN deletionOffset + (ni - expectedNewLine) ELSE deletionOffset,
                         deleted)

\* a variant of the result that lists every unmatched new line as added
DiffOfMatchingAll(oldLines, newLines, m) ==
    [addedLines |-> Ascending({n \in 0 .. Len(newLines) - 1 : n \notin m.matchedNew}),
     deletedLines |-> DeletedPass(oldLines, newLines, m, 0, 0, <<>>)]

\* DiffPreviewProvider.calculateDiff
\* calculateDiff, its result from the matching m of the lines
DiffOfMatching(oldLines, newLines, m) ==
    [addedLines |-> Ascending({n \in 0 .. Len(newLines) - 1 :
                                  n \notin m.matchedNew /\ ~IsBlank(newLines[n + 1])}),
     deletedLines |-> DeletedPass(oldLines, newLines, m, 0, 0, <<>>)]

\* no scan of a text by its characters is running (start, end: the span of
\* the element that a move of HtmlParser took out)
NoScan ==
    [loop |-> "none", content |-> <<>>, pos |-> 0, depth |-> 0, foundCount |-> 0,
     targetIndex |-> 0, done |-> FALSE, iterations |-> 0, start |-> 0, end |-> 0]

\* matchedOld and matchedNew empty, expectedOldIdx = 0
NoMatching == [matchedOld |-> {}, matchedNew |-> {}, expectedOldIdx |-> 0]

DiffOfLines(oldLines, newLines) ==
    DiffOfMatching(oldLines, newLines, ForwardPass(oldLines, newLines, 0, NoMatching))

calculateDiff(oldContent, newContent) ==
    DiffOfLines(SplitLines(oldContent), SplitLines(newContent))

\* ------------------------------------------------------------------------
\* DiffPreviewProvider: the pending-change record
\* ------------------------------------------------------------------------
\* pendingChange = null
NoPending ==
    [active |-> FALSE, oldContent |-> <<>>, newContent |-> <<>>, description |-> <<>>,
     addedLines |-> <<>>, deletedLines |-> <<>>, deletedLineNumbers |-> <<>>, changeCount |-> 0]

\* `<!-- DELETED: ${deleted.content.trim()} -->`
DeletionComment(content) == <<DelOpen>> \o Trim(content) \o <<CClose>>

\* line.trim().match(/^<!--\s*DELETED:/)
StartsWithDelOpen(trimmed) == trimmed # <<>> /\ Head(trimmed).k = "delopen"

IsDeletionComment(line) == StartsWithDelOpen(Trim(line))

\* the line inserted before position a of lines
SpliceAt(lines, a, line) ==
    SubSeq(lines, 1, a) \o <<line>> \o SubSeq(lines, a + 1, Len(lines))

\* lines.splice(at, 0, line)
Splice(lines, at, line) == SpliceAt(lines, Clamp(at, Len(lines)), line)

SelectNotIn(nums, excluded) ==
    SelectSeq(nums, LAMBDA n : \A j \in 1 .. Len(excluded) : excluded[j] # n)

\* recordChange, the loop that re-inserts the deleted lines as comments
RECURSIVE InsertDeletionComments(_, _, _, _)
InsertDeletionComments(lines, deletedLines, insertOffset, deletedLineNumbers) ==
    IF deletedLines = <<>> THEN [lines |-> lines, deletedLineNumbers |-> deletedLineNumbers]
    ELSE InsertDeletionComments(
             Splice(lines, Head(deletedLines).afterLine + 1 + insertOffset,
                    DeletionComment(Head(deletedLines).content)),
             Tail(deletedLines), insertOffset + 1,
             Append(deletedLineNumbers, Head(deletedLines).afterLine + 1 + insertOffset))

\* DiffPreviewProvider.recordChange up to its call of applyToDocument:
\* the value it will return, the record, and the text it applies
\* recordChange, a first change: the record is created from the diff of
\* the document text against the new text
FirstRecord(currentContent, newContent, description, diff) ==
    [active |-> TRUE, oldContent |-> currentContent, newContent |-> newContent,
     description |-> <<description>>, addedLines |-> diff.addedLines,
     deletedLines |-> diff.deletedLines, deletedLineNumbers |-> <<>>,
     changeCount |-> 1]

\* recordChange, a further change: the record keeps oldContent and takes
\* the diff of oldContent against the new text
Accumulated(pending, newContent, description, newDiff) ==
    [pending EXCEPT !.newContent = newContent,
                    !.description = Append(pending.description, description),
                    !.addedLines = newDiff.addedLines,
                    !.deletedLines = newDiff.deletedLines,
                    !.changeCount = pending.changeCount + 1]

\* recordChange, the end: the line numbers of the comments are stored and
\* taken out of addedLines
Recorded(recorded, deletedLineNumbers, contentToApply) ==
    [returned |-> TRUE,
     pending |-> [recorded EXCEPT !.deletedLineNumbers = deletedLineNumbers,
                                  !.addedLines = SelectNotIn(recorded.addedLines, deletedLineNumbers)],
     contentToApply |-> contentToApply]

\* recordChange, the text shown: with comments when lines were deleted
Shown(recorded, newContent, hasDeleted, existing, inserted) ==
    Recorded(recorded,
             IF hasDeleted THEN inserted.deletedLineNumbers ELSE existing,
             IF hasDeleted THEN JoinLines(inserted.lines) ELSE newContent)

ShowDeletions(recorded, newContent, deletedLines, existing) ==
    Shown(recorded, newContent, deletedLines # <<>>, existing,
          InsertDeletionComments(SplitLines(newContent), deletedLines, 0, existing))

RecordDiff(recorded, newContent, diff) ==
    ShowDeletions(recorded, newContent, diff.deletedLines,
                  IF recorded.changeCount > 1 THEN recorded.deletedLineNumbers ELSE <<>>)

RecordWith(pending, currentContent, newContent, description, diff) ==
    RecordDiff(IF ~pending.active
               THEN FirstRecord(currentContent, newContent, description, diff)
               ELSE Accumulated(pending, newContent, description,
                                calculateDiff(pending.oldContent, newContent)),
               newContent, diff)

recordChange(pending, currentContent, newContent, description) ==
    IF currentContent = newContent
    THEN [returned |-> FALSE, pending |-> pending, contentToApply |-> currentContent]
    ELSE RecordWith(pending, currentContent, newContent, description,
                    calculateDiff(currentContent, newContent))

\* a variant of applyEdit that records without comparing the texts
applyEditUnconditional(pending, oldContent, documentText, newContent, description) ==
    [returned |-> TRUE,
     pending |-> [pending EXCEPT !.active = TRUE, !.newContent = newContent,
                                 !.changeCount = pending.changeCount + 1],
     contentToApply |-> newContent]

\* CodeSync.applyEdit
applyEdit(pending, oldContent, documentText, newContent, description) ==
    IF oldContent = newContent
    THEN [returned |-> FALSE, pending |-> pending, contentToApply |-> documentText]
    ELSE recordChange(pending, documentText, newContent, description)

\* acceptPendingChange: the text written and saved
CleanedContent(currentText) ==
    JoinLines(SelectSeq(SplitLines(currentText), LAMBDA line : ~IsDeletionComment(line)))

\* a variant of RevertedContent that writes the record's current text
RevertedToCurrent(pending) == pending.newContent

\* rejectPendingChange: the text written back
RevertedContent(pending) == pending.oldContent

\* a variant of applyToDocument that saves the document
applyToDocumentSaving(saved, content) == [text |-> content, saved |-> content]

\* applyToDocument: the document text and the file on disk after the edit;
\* the edit is applied without saving
applyToDocument(saved, content) == [text |-> content, saved |-> saved]

\* a variant of cleanup that keeps the record
cleanupKeepsRecord(pending) == pending

\* cleanup: the record after a decision
cleanup(pending) == NoPending

\* hasPendingChanges
hasPendingChanges(pending) == pending.active

\* ------------------------------------------------------------------------
\* Bounds and inputs of the model
\* ------------------------------------------------------------------------
\* messages and commands handled in one behaviour
MaxEvents == 3

\* <ul> with two items, one element per line
DocList ==
    <<Open("ul"), NL, Open("li"), Text("A"), Close("li"), NL,
      Open("li"), Text("B"), Close("li"), NL, Close("ul")>>

\* a document that is one element and nothing else
DocSingle == <<Open("p"), Text("Hi"), Close("p")>>

\* a section with an id inside <body>, followed by a div
DocBody ==
    <<Open("body"), NL, OpenId("section", "reviews"), Text("R"), Close("section"), NL,
      Open("div"), Text("D"), Close("div"), NL, Close("body")>>

SampleDocs == {DocList, DocSingle, DocBody}

PathUl == <<Seg("ul", "", "", 0)>>
PathLi1 == <<Seg("ul", "", "", 0), Seg("li", "", "", 1)>>
PathLi2 == <<Seg("ul", "", "", 0), Seg("li", "", "", 2)>>
PathLi3 == <<Seg("ul", "", "", 0), Seg("li", "", "", 3)>>
PathP == <<Seg("p", "", "", 0)>>
PathReviews == <<Seg("", "reviews", "", 0)>>
PathDiv == <<PreviewContentSeg, Seg("div", "", "", 2)>>

Batch(styles, hasText, textContent) ==
    [styles |-> styles, hasText |-> hasText, textContent |-> textContent]

\* {path, newText} of the textEdited messages
TextRequests ==
    {<<PathLi2, <<Text("X")>>>>, <<PathLi1, <<Text("A")>>>>, <<PathLi3, <<Text("X")>>>>,
     <<PathReviews, <<Text("X")>>>>}

\* {path, property, value} of the styleChanged messages
StyleRequests ==
    {<<PathLi2, "color", "red">>, <<PathLi2, "fontSize", "2px">>, <<PathP, "color", "red">>}

\* {path, batch} of the stylesBatchChanged messages: the style entries in
\* insertion order and the text content, absent or present
BatchRequests ==
    {<<PathLi2, Batch(<<<<"color", "red">>, <<"fontSize", "2px">>>>, TRUE, <<Text("X")>>)>>,
     <<PathP, Batch(<<<<"color", "red">>>>, FALSE, <<>>)>>,
     <<PathLi1, Batch(<<>>, TRUE, <<Text("A")>>)>>}

\* {path, newParentPath, newIndex} of the elementMoved messages
MoveRequests ==
    {<<PathLi2, PathUl, 0>>, <<PathLi1, PathUl, 1>>, <<PathLi1, PathUl, 5>>,
     <<PathLi3, PathUl, 0>>, <<PathLi1, PathP, 0>>}

\* the paths of the elementDeleted and elementDuplicated messages
ElementPaths == {PathLi1, PathLi2, PathLi3, PathP, PathDiv}

\* ------------------------------------------------------------------------
\* State
\* ------------------------------------------------------------------------
VARIABLES
    documentText,   \* document.getText() of the previewed document
    savedText,      \* the content of the file on disk
    pendingChange,  \* DiffPreviewProvider.pendingChange
    lastIdMap,      \* ASTParser.lastIdMap
    idCounter,      \* ASTParser.idCounter
    last,           \* history: the message or command handled last and its steps
    session,        \* history: where the current or latest session started
    handled,        \* the number of messages and commands handled
    inflight,       \* the workspace edits issued and not yet completed, oldest first
    docVersion,     \* the version of the document
    serial,         \* history: the text and record had the messages been handled one by one
    panel           \* PreviewPanel: _devServerUrl set, an _initializeContent running,
                    \* the webview's html, the other open document, and (history) the
                    \* text of the last injectElementIds call

vars ==
    <<documentText, savedText, pendingChange, lastIdMap, idCounter, last, session, handled,
      inflight, docVersion, serial, panel>>

Request(op, path, agId, parentPath, newIndex, newText, styles) ==
    [op |-> op, path |-> path, agId |-> agId, parentPath |-> parentPath,
     newIndex |-> newIndex, newText |-> newText, styles |-> styles]

NoRequest == Request("none", <<>>, NoId, <<>>, 0, <<>>, <<>>)

\* one CodeSync operation from its computed text to the end of
\* recordChange, started on the given text and record
StepOf(text, pending, computed, e) ==
    [before |-> text, pendingBefore |-> pending, computed |-> computed,
     returned |-> e.returned, after |-> e.contentToApply, pendingAfter |-> e.pending]

Step(text, pending, computed) ==
    StepOf(text, pending, computed,
           IF computed.ok
           THEN applyEdit(pending, text, text, computed.newContent, computed.description)
           ELSE [returned |-> FALSE, pending |-> pending, contentToApply |-> text])

\* what a handler leaves behind: the request, the text and the record it
\* started from, and its steps (matched: the matching of the lines of a
\* calculateDiff applied on its own, scan: the variables of a tag scan run
\* on its own)
Handled(request, steps) ==
    [request |-> request, before |-> documentText, pendingBefore |-> pendingChange,
     savedBefore |-> savedText, idMapBefore |-> lastIdMap, queued |-> Len(inflight),
     injectedBefore |-> panel.injected, steps |-> steps, matched |-> NoMatching,
     scan |-> NoScan]

\* the steps of a handler that the document change event follows
Changes(steps) == SelectSeq(steps, LAMBDA s : s.after # s.before)

RECURSIVE SumIds(_)
SumIds(changes) ==
    IF changes = <<>> THEN 0 ELSE IdsUsed(Head(changes).after) + SumIds(Tail(changes))

\* PreviewPanel.onDocumentChange in static HTML mode: every change of the
\* document text is followed by processHtmlForPreview, which replaces
\* lastIdMap
\* a variant of Reparsed that adds the new identities to the stored map
ReparsedKeeping(final, counterAfter) ==
    /\ idCounter' = counterAfter
    /\ lastIdMap' = With(injectElementIds(final, counterAfter - IdsUsed(final)), LAMBDA idMap :
                         [id \in DOMAIN lastIdMap \cup DOMAIN idMap |->
                             IF id \in DOMAIN idMap THEN idMap[id] ELSE lastIdMap[id]])
    /\ panel' = [panel EXCEPT !.injected = final]

\* the parse of the last change issues the last identities
Reparsed(final, counterAfter) ==
    /\ idCounter' = counterAfter
    /\ lastIdMap' = injectElementIds(final, counterAfter - IdsUsed(final))
    /\ panel' = [panel EXCEPT !.injected = final]

\* if (this._isDisposed) return; if (this._devServerUrl) return: with a dev
\* server URL the change is left to the server and nothing is injected
OnDocumentChange(changes) ==
    IF changes = <<>> \/ panel.devServerUrl \/ panel.life.isDisposed
    THEN UNCHANGED <<lastIdMap, idCounter, panel>>
    ELSE Reparsed(changes[Len(changes)].after, idCounter + SumIds(changes))

CommentsOf(deletedLines) ==
    {DeletionComment(deletedLines[i].content) : i \in 1 .. Len(deletedLines)}

\* the comment lines recordChange inserts when it records newContent over
\* currentContent
InsertedComments(currentContent, newContent) ==
    CommentsOf(calculateDiff(currentContent, newContent).deletedLines)

\* the session history: a step that creates the record starts a session,
\* every recorded step counts, and the comment lines it inserted are kept
RECURSIVE Track(_, _)
Counted(started, h) ==
    IF h.returned
    THEN [started EXCEPT
            !.recorded = started.recorded + 1,
            !.comments = started.comments \cup InsertedComments(h.before, h.computed.newContent)]
    ELSE started

Tracked(s, h) ==
    Counted(IF h.returned /\ ~h.pendingBefore.active
            THEN [oldText |-> h.before, saved |-> savedText, recorded |-> 0, comments |-> {},
                  document |-> panel.document]
            ELSE s,
            h)

Track(s, steps) ==
    IF steps = <<>> THEN s ELSE Track(Tracked(s, Head(steps)), Tail(steps))

\* the properties and values of the style panel; "" is no value
StyleProps == {"color", "fontSize"}

\* pendingStyleChanges = {}, pendingTextContent = null, hasPendingChanges =
\* false; the panel is hidden (shown: its class 'visible')
NoBuffer == [pendingStyleChanges |-> [p \in StyleProps |-> ""], pendingTextContent |-> ""]

\* the style panel: sent (history) holds the batches posted to the
\* extension and click (history) the last thing the user did
NoEdits ==
    [buffer |-> NoBuffer, hasPendingChanges |-> FALSE, stylePanelVisible |-> FALSE,
     shown |-> FALSE, sent |-> <<>>, click |-> "none"]

\* the panel of a document: static HTML rendered in the webview ("inline")
\* or the dev server in an iframe ("iframe"), the calls of
\* _initializeContent that have not passed their await, the document of
\* the other editor, the text injectElementIds parsed last, the scripts
\* of the page, and which of the two documents this._document is
\* the script of the webview (previewHtml.ts) and the bridge script of the
\* iframe (bridge.js) before anything is selected: currentDragMode is
\* 'rearrange' or null, index is the place of the selected element among
\* the children of its parent in the page shown, toBridge and toWebview
\* are the messages posted between the two windows and not yet handled,
\* posted (history) the elementMoved messages posted to the extension and
\* releases (history) the place of the element at each mouse release,
\* origin the place the selected element had when it was selected,
\* dragged (history) the origin at each mouse release and style the
\* variables of the style panel
NoDrag ==
    [currentDragMode |-> FALSE, selectedElement |-> FALSE, isDragging |-> FALSE,
     hasMovedFromOriginal |-> FALSE, index |-> 0,
     bridge |-> [isDragging |-> FALSE, selectedElement |-> FALSE],
     toBridge |-> <<>>, toWebview |-> <<>>, posted |-> <<>>, releases |-> <<>>,
     origin |-> 0, dragged |-> <<>>, style |-> NoEdits]

\* the life of the panel: _isDisposed, _hmrFallbackTimer (set or null),
\* continued the number of requests handled when a delete or duplicate
\* handler last went on after its await, posted (history) the messages
\* posted to the webview by those handlers and by the timer, each with
\* _isDisposed at the time, and shown (history) the HTML and the content
\* the webview had when the panel was disposed
NoLife ==
    [isDisposed |-> FALSE, hmrFallbackTimer |-> FALSE, continued |-> 0, posted |-> <<>>,
     shown |-> <<>>]

\* the DevServerManager of the panel.  A process is known by its number in
\* the order of the spawns, 0 is null; a URL is known by the process whose
\* output set it.  _process, _isStarting, _currentUrl; spawned: the
\* processes spawned so far; alive: those that have not exited; stopped
\* (history): those stop() has killed; serverStarted, timeout, fallback:
\* for each start() that spawned, its serverStarted, its pending 30 s
\* timer and its pending 500 ms timer; calls (history): the calls of
\* start() with the state of their promises
NoServer ==
    [process |-> 0, isStarting |-> FALSE, currentUrl |-> 0, spawned |-> 0, alive |-> {},
     stopped |-> {}, serverStarted |-> {}, timeout |-> {}, fallback |-> {}, calls |-> <<>>]

Panel(devServerUrl, html, other, injected) ==
    [devServerUrl |-> devServerUrl, initializing |-> 0, html |-> html,
     other |-> [text |-> other, saved |-> other], injected |-> injected,
     webview |-> NoDrag, document |-> "A", life |-> NoLife, server |-> NoServer]

\* the two documents of the editors
OtherDocument(document) == IF document = "A" THEN "B" ELSE "A"

\* the document of another editor
OtherOf(text) == IF text = DocList THEN DocBody ELSE DocList

\* a panel that shows one of the documents docs, nothing handled yet
InitShown(docs, devServerUrl, html) ==
    /\ documentText \in docs
    /\ savedText = documentText
    /\ pendingChange = NoPending
    /\ lastIdMap = injectElementIds(documentText, 0)
    /\ idCounter = IdsUsed(documentText)
    /\ panel = Panel(devServerUrl, html, OtherOf(documentText), documentText)
    /\ last = [request |-> NoRequest, before |-> documentText, pendingBefore |-> NoPending,
               savedBefore |-> documentText, idMapBefore |-> lastIdMap, queued |-> 0,
               injectedBefore |-> documentText, steps |-> <<>>, matched |-> NoMatching,
               scan |-> NoScan]
    /\ session = [oldText |-> documentText, saved |-> documentText, recorded |-> 0,
                  comments |-> {}, document |-> panel.document]
    /\ handled = 0
    /\ inflight = <<>>
    /\ docVersion = 0
    /\ serial = [text |-> documentText, pending |-> NoPending]

\* a panel that has rendered one of the documents docs as static HTML
InitFrom(docs) == InitShown(docs, FALSE, "inline")

Init == InitFrom(SampleDocs)

\* the identities a request can carry with its path: none, or with a path
\* that resolves to nothing the first identity ever issued and the first
\* and last of the current preview
Locators ==
    {<<path, NoId>> : path \in ElementPaths}
        \cup {<<PathLi3, agId>> : agId \in {0} \cup {id \in DOMAIN lastIdMap :
                                       \/ \A other \in DOMAIN lastIdMap : id <= other
                                       \/ \A other \in DOMAIN lastIdMap : id >= other}}
        \cup {<<PathLi1, 0>>}

\* the page of a dev server carries no data-ag-id attributes
PanelLocators == {l \in Locators : l[2] = NoId \/ panel.html = "inline"}

\* a mutation handler that ran the given steps one after the other, each
\* edit applied before the next step reads the document
Mutated(request, steps, changes, applied, pending) ==
    /\ handled' = handled + 1
    /\ documentText' = applied.text
    /\ savedText' = applied.saved
    /\ pendingChange' = pending
    /\ OnDocumentChange(changes)
    /\ docVersion' = docVersion + Len(changes)
    /\ last' = Handled(request, steps)
    /\ session' = Track(session, steps)
    /\ serial' = [text |-> applied.text, pending |-> pending]
    /\ UNCHANGED inflight

Mutation(request, steps) ==
    Mutated(request, steps, Changes(steps),
            IF Changes(steps) = <<>> THEN [text |-> documentText, saved |-> savedText]
            ELSE applyToDocument(savedText, steps[Len(steps)].after),
            IF steps = <<>> THEN pendingChange ELSE steps[Len(steps)].pendingAfter)

\* PreviewPanel._onTextEdited
TextEdited ==
    /\ handled < MaxEvents
    /\ \E r \in TextRequests :
           Mutation(Request("textEdited", r[1], NoId, <<>>, 0, r[2], <<>>),
                    <<Step(documentText, pendingChange, applyTextEdit(documentText, r[1], r[2]))>>)

\* PreviewPanel._onStyleChanged
StyleChanged ==
    /\ handled < MaxEvents
    /\ \E r \in StyleRequests :
           Mutation(Request("styleChanged", r[1], NoId, <<>>, 0, <<>>, <<<<r[2], r[3]>>>>),
                    <<Step(documentText, pendingChange,
                           applyStyleEdit(documentText, r[1], r[2], r[3]))>>)

\* _onStylesBatchChanged: one applyStyleEdit per entry, each awaited, then
\* applyTextEdit when the batch has text content
RECURSIVE BatchSteps(_, _, _, _, _)
BatchSteps(text, pending, path, batch, steps) ==
    IF batch.styles # <<>>
    THEN With(Step(text, pending,
                   applyStyleEdit(text, path, Head(batch.styles)[1], Head(batch.styles)[2])),
              LAMBDA s :
              BatchSteps(s.after, s.pendingAfter, path,
                         [batch EXCEPT !.styles = Tail(batch.styles)], Append(steps, s)))
    ELSE IF batch.hasText
    THEN Append(steps, Step(text, pending, applyTextEdit(text, path, batch.textContent)))
    ELSE steps

\* PreviewPanel._onStylesBatchChanged
StylesBatchChanged ==
    /\ handled < MaxEvents
    /\ \E r \in BatchRequests :
           Mutation(Request("stylesBatchChanged", r[1], NoId, <<>>, 0, r[2].textContent, r[2].styles),
                    BatchSteps(documentText, pendingChange, r[1], r[2], <<>>))

\* PreviewPanel._onElementMoved
ElementMoved ==
    /\ handled < MaxEvents
    /\ \E r \in MoveRequests :
           Mutation(Request("elementMoved", r[1], NoId, r[2], r[3], <<>>, <<>>),
                    <<Step(documentText, pendingChange,
                           applyElementMove(documentText, r[1], r[2], r[3]))>>)

\* PreviewPanel._onElementDeleted
ElementDeleted ==
    /\ handled < MaxEvents
    /\ \E l \in Locators :
           Mutation(Request("elementDeleted", l[1], l[2], <<>>, 0, <<>>, <<>>),
                    <<Step(documentText, pendingChange,
                           applyElementDelete(lastIdMap, documentText, l[1], l[2]))>>)

\* PreviewPanel._onElementDuplicated
ElementDuplicated ==
    /\ handled < MaxEvents
    /\ \E l \in Locators :
           Mutation(Request("elementDuplicated", l[1], l[2], <<>>, 0, <<>>, <<>>),
                    <<Step(documentText, pendingChange,
                           applyElementDuplicate(lastIdMap, documentText, l[1], l[2]))>>)

\* the document change event of a command that replaced the whole text
Replaced(text) ==
    OnDocumentChange(IF text = documentText THEN <<>> ELSE <<[after |-> text]>>)

\* a decision: the whole text is replaced and the record cleaned up
Decided(text, saved, pending) ==
    /\ documentText' = text
    /\ savedText' = saved
    /\ pendingChange' = pending
    /\ Replaced(text)
    /\ docVersion' = docVersion + 1
    /\ session' = [session EXCEPT !.recorded = 0]
    /\ serial' = [text |-> text, pending |-> pending]

\* DiffPreviewProvider.acceptPendingChange (command antigravity.acceptChanges)
AcceptChanges ==
    /\ handled < MaxEvents
    /\ handled' = handled + 1
    /\ last' = Handled(Request("accept", <<>>, NoId, <<>>, 0, <<>>, <<>>), <<>>)
    /\ UNCHANGED inflight
    /\ IF ~pendingChange.active
       THEN UNCHANGED <<documentText, savedText, pendingChange, lastIdMap, idCounter,
                        session, docVersion, serial, panel>>
       ELSE Decided(CleanedContent(documentText), CleanedContent(documentText),
                    cleanup(pendingChange))

\* DiffPreviewProvider.rejectPendingChange (command antigravity.rejectChanges)
RejectChanges ==
    /\ handled < MaxEvents
    /\ handled' = handled + 1
    /\ last' = Handled(Request("reject", <<>>, NoId, <<>>, 0, <<>>, <<>>), <<>>)
    /\ UNCHANGED inflight
    /\ IF ~pendingChange.active
       THEN UNCHANGED <<documentText, savedText, pendingChange, lastIdMap, idCounter,
                        session, docVersion, serial, panel>>
       ELSE Decided(applyToDocument(savedText, RevertedContent(pendingChange)).text,
                    applyToDocument(savedText, RevertedContent(pendingChange)).saved,
                    cleanup(pendingChange))

Next ==
    \/ TextEdited
    \/ StyleChanged
    \/ StylesBatchChanged
    \/ ElementMoved
    \/ ElementDeleted
    \/ ElementDuplicated
    \/ AcceptChanges
    \/ RejectChanges

Spec == Init /\ [][Next]_vars

\* ------------------------------------------------------------------------
\* The mutation handlers with their awaits.  _handleMessage calls a handler
\* and does not await it: the handler runs up to the workspace edit that
\* applyToDocument issues, the edit completes later, and the handler goes
\* on from there.  Messages carry no identity here.
\* ------------------------------------------------------------------------
Op(kind, path, parentPath, newIndex, newText, property, value) ==
    [kind |-> kind, path |-> path, parentPath |-> parentPath, newIndex |-> newIndex,
     newText |-> newText, property |-> property, value |-> value]

\* the CodeSync call of an operation on the text it reads
Compute(op, text) ==
    CASE op.kind = "text" -> applyTextEdit(text, op.path, op.newText)
      [] op.kind = "style" -> applyStyleEdit(text, op.path, op.property, op.value)
      [] op.kind = "move" -> applyElementMove(text, op.path, op.parentPath, op.newIndex)
      [] op.kind = "delete" -> applyElementDelete(lastIdMap, text, op.path, NoId)
      [] op.kind = "duplicate" -> applyElementDuplicate(lastIdMap, text, op.path, NoId)

\* the operations of a stylesBatchChanged message, in the order the handler
\* runs them
RECURSIVE BatchOps(_, _)
BatchOps(path, batch) ==
    IF batch.styles # <<>>
    THEN <<Op("style", path, <<>>, 0, <<>>, Head(batch.styles)[1], Head(batch.styles)[2])>>
             \o BatchOps(path, [batch EXCEPT !.styles = Tail(batch.styles)])
    ELSE IF batch.hasText THEN <<Op("text", path, <<>>, 0, batch.textContent, "", "")>>
    ELSE <<>>

\* a handler from where it stands to its next await of a workspace edit:
\* an operation that returns false issues none and the handler goes on
RECURSIVE RunUntilIssued(_, _, _, _)
RunUntilIssued(text, pending, ops, steps) ==
    IF ops = <<>> THEN [steps |-> steps, pending |-> pending, issued |-> FALSE, rest |-> <<>>]
    ELSE With(Step(text, pending, Compute(Head(ops), text)), LAMBDA s :
              IF s.returned
              THEN [steps |-> Append(steps, s), pending |-> s.pendingAfter, issued |-> TRUE,
                    rest |-> Tail(ops)]
              ELSE RunUntilIssued(text, pending, Tail(ops), Append(steps, s)))

\* the same operations, each edit applied before the next one reads
RECURSIVE RunAll(_, _, _)
RunAll(text, pending, ops) ==
    IF ops = <<>> THEN [text |-> text, pending |-> pending]
    ELSE With(Step(text, pending, Compute(Head(ops), text)), LAMBDA s :
              RunAll(s.after, s.pendingAfter, Tail(ops)))

\* the edits in flight after a handler ran to its next await
Issue(queue, run, version) ==
    IF run.issued
    THEN Append(queue, [content |-> run.steps[Len(run.steps)].after, version |-> version,
                        rest |-> run.rest])
    ELSE queue

\* _handleMessage: the handler of a mutation message up to its first await
Received(request, ops, run) ==
    /\ handled' = handled + 1
    /\ pendingChange' = run.pending
    /\ inflight' = Issue(inflight, run, docVersion)
    /\ last' = Handled(request, run.steps)
    /\ serial' = RunAll(serial.text, serial.pending, ops)
    /\ UNCHANGED <<documentText, savedText, lastIdMap, idCounter, session, docVersion, panel>>

Receive(request, ops) ==
    Received(request, ops, RunUntilIssued(documentText, pendingChange, ops, <<>>))

ReceiveTextEdited ==
    /\ handled < MaxEvents
    /\ \E r \in TextRequests :
           Receive(Request("textEdited", r[1], NoId, <<>>, 0, r[2], <<>>),
                   <<Op("text", r[1], <<>>, 0, r[2], "", "")>>)

ReceiveStyleChanged ==
    /\ handled < MaxEvents
    /\ \E r \in StyleRequests :
           Receive(Request("styleChanged", r[1], NoId, <<>>, 0, <<>>, <<<<r[2], r[3]>>>>),
                   <<Op("style", r[1], <<>>, 0, <<>>, r[2], r[3])>>)

ReceiveStylesBatchChanged ==
    /\ handled < MaxEvents
    /\ \E r \in BatchRequests :
           Receive(Request("stylesBatchChanged", r[1], NoId, <<>>, 0, r[2].textContent, r[2].styles),
                   BatchOps(r[1], r[2]))

ReceiveElementMoved ==
    /\ handled < MaxEvents
    /\ \E r \in MoveRequests :
           Receive(Request("elementMoved", r[1], NoId, r[2], r[3], <<>>, <<>>),
                   <<Op("move", r[1], r[2], r[3], <<>>, "", "")>>)

ReceiveElementDeleted ==
    /\ handled < MaxEvents
    /\ \E path \in ElementPaths :
           Receive(Request("elementDeleted", path, NoId, <<>>, 0, <<>>, <<>>),
                   <<Op("delete", path, <<>>, 0, <<>>, "", "")>>)

ReceiveElementDuplicated ==
    /\ handled < MaxEvents
    /\ \E path \in ElementPaths :
           Receive(Request("elementDuplicated", path, NoId, <<>>, 0, <<>>, <<>>),
                   <<Op("duplicate", path, <<>>, 0, <<>>, "", "")>>)

\* the handler that awaited the oldest edit goes on with the rest of its
\* operations on the text the document now has
Resumed(run, version) ==
    /\ pendingChange' = run.pending
    /\ inflight' = Issue(Tail(inflight), run, version)

Resume(text, version) ==
    Resumed(RunUntilIssued(text, pendingChange, Head(inflight).rest, <<>>), version)

\* the oldest workspace edit replaces the document text.  An edit issued
\* against an earlier version of the document is either applied like any
\* other or rejected (EditRejected).
EditApplied ==
    /\ inflight # <<>>
    /\ documentText' = Head(inflight).content
    /\ docVersion' = docVersion + 1
    /\ Replaced(Head(inflight).content)
    /\ Resume(Head(inflight).content, docVersion + 1)
    /\ UNCHANGED <<savedText, last, session, handled, serial>>

\* the oldest workspace edit was issued against an earlier version of the
\* document and is rejected: applyEdit resolves to false, which
\* applyToDocument's caller does not look at
EditRejected ==
    /\ inflight # <<>>
    /\ Head(inflight).version # docVersion
    /\ Resume(documentText, docVersion)
    /\ UNCHANGED <<documentText, docVersion, lastIdMap, idCounter, savedText, last, session,
                   handled, serial, panel>>

NextAsync ==
    \/ ReceiveTextEdited
    \/ ReceiveStyleChanged
    \/ ReceiveStylesBatchChanged
    \/ ReceiveElementMoved
    \/ ReceiveElementDeleted
    \/ ReceiveElementDuplicated
    \/ EditApplied
    \/ EditRejected

SpecAsync == Init /\ [][NextAsync]_vars

\* ------------------------------------------------------------------------
\* The mutation engine alone: the operations of CodeSync, each from the
\* text it reads to the text it hands to applyEdit, on markup that has
\* nested elements, an element without a close tag, style attributes, a
\* self-closing tag and marker attributes of its own.  The text an operation
\* computes is the text the next one reads, and the identities are those of
\* a parse of that text.
\* ------------------------------------------------------------------------
\* operations applied in one behaviour
MaxCalls == 2

\* <ul> with three items on one line
DocItems ==
    <<Open("ul"), Open("li"), Text("A"), Close("li"), Open("li"), Text("B"), Close("li"),
      Open("li"), Text("C"), Close("li"), Close("ul")>>

\* a div that holds a div and a paragraph
DocNested ==
    <<Open("div"), Open("div"), Text("In"), Close("div"), Open("p"), Text("Hello"), Close("p"),
      Close("div")>>

\* a paragraph that is never closed, on a line of its own
DocTruncated == <<Open("div"), NL, Open("p"), Text("Hi"), NL, Close("div")>>

\* a paragraph with a style attribute and a self-closing image
DocStyled ==
    <<[Open("p") EXCEPT !.style = [has |-> TRUE,
                                   items |-> <<StyleDecl("background-color", "blue"), Semi>>]],
      Text("T"), Close("p"), [Open("img") EXCEPT !.sc = "end"]>>

\* source text that carries data-ag-id attributes
DocMarked ==
    <<[Open("div") EXCEPT !.agid = 100], [Open("span") EXCEPT !.agid = 101], Text("S"),
      Close("span"), Close("div")>>

EngineDocs == {DocItems, DocNested, DocTruncated, DocStyled, DocMarked}

PathOuter == <<Seg("div", "", "", 0)>>
PathDivP == <<Seg("div", "", "", 0), Seg("p", "", "", 0)>>
PathDivSpan == <<Seg("div", "", "", 0), Seg("span", "", "", 0)>>
PathImg == <<Seg("img", "", "", 0)>>

EngineTextRequests ==
    {<<PathLi1, <<Text("X")>>>>, <<PathOuter, <<Text("X")>>>>, <<PathDivP, <<Text("Goodbye")>>>>,
     <<PathP, <<Text("X")>>>>}

EngineStyleRequests ==
    {<<PathP, "color", "red">>, <<PathP, "backgroundColor", "tan">>, <<PathImg, "color", "red">>,
     <<PathLi1, "fontSize", "2px">>, <<PathDivP, "color", "red">>}

IndexValues == {-1, 0, 1, 2, 5}

EngineMoveRequests ==
    {<<path, PathUl, newIndex>> : path \in {PathLi1, PathLi2, PathLi3}, newIndex \in IndexValues}
        \cup {<<PathDivP, PathOuter, 0>>, <<PathOuter, PathDivP, 0>>}

EnginePaths == {PathLi1, PathLi2, PathOuter, PathDivP, PathDivSpan, PathP, PathImg}

\* a path alone, or an identity of the current parse with a path that
\* resolves to nothing
EngineLocators ==
    {<<path, NoId>> : path \in EnginePaths}
        \cup {<<<<Seg("h1", "", "", 0)>>, agId>> : agId \in DOMAIN lastIdMap}

\* an operation of the engine and the text it returned, which becomes the
\* text of the document
Applied(request, computed, text) ==
    /\ handled' = handled + 1
    /\ documentText' = text
    /\ Replaced(text)
    /\ last' = Handled(request,
                       <<StepOf(documentText, NoPending, computed,
                                [returned |-> computed.ok, contentToApply |-> text,
                                 pending |-> NoPending])>>)
    /\ UNCHANGED <<savedText, pendingChange, session, inflight, docVersion, serial>>

Apply(request, computed) ==
    Applied(request, computed, IF computed.ok THEN computed.newContent ELSE documentText)

\* CodeSync.applyTextEdit
ApplyTextEdit ==
    /\ handled < MaxCalls
    /\ \E r \in EngineTextRequests :
           Apply(Request("textEdited", r[1], NoId, <<>>, 0, r[2], <<>>),
                 applyTextEdit(documentText, r[1], r[2]))

\* CodeSync.applyStyleEdit
ApplyStyleEdit ==
    /\ handled < MaxCalls
    /\ \E r \in EngineStyleRequests :
           Apply(Request("styleChanged", r[1], NoId, <<>>, 0, <<>>, <<<<r[2], r[3]>>>>),
                 applyStyleEdit(documentText, r[1], r[2], r[3]))

\* CodeSync.applyElementMove
ApplyElementMove ==
    /\ handled < MaxCalls
    /\ \E r \in EngineMoveRequests :
           Apply(Request("elementMoved", r[1], NoId, r[2], r[3], <<>>, <<>>),
                 applyElementMove(documentText, r[1], r[2], r[3]))

\* CodeSync.applyElementDelete
ApplyElementDelete ==
    /\ handled < MaxCalls
    /\ \E l \in EngineLocators :
           Apply(Request("elementDeleted", l[1], l[2], <<>>, 0, <<>>, <<>>),
                 applyElementDelete(lastIdMap, documentText, l[1], l[2]))

\* CodeSync.applyElementDuplicate
ApplyElementDuplicate ==
    /\ handled < MaxCalls
    /\ \E l \in EngineLocators :
           Apply(Request("elementDuplicated", l[1], l[2], <<>>, 0, <<>>, <<>>),
                 applyElementDuplicate(lastIdMap, documentText, l[1], l[2]))

NextEngine ==
    \/ ApplyTextEdit
    \/ ApplyStyleEdit
    \/ ApplyElementMove
    \/ ApplyElementDelete
    \/ ApplyElementDuplicate

InitEngine == InitFrom(EngineDocs)

SpecEngine == InitEngine /\ [][NextEngine]_vars

\* ------------------------------------------------------------------------
\* The panel across documents: the active editor changes, the content is
\* initialized after an await, and the webview asks for deletes and
\* duplicates in between.
\* ------------------------------------------------------------------------
\* PreviewPanel.updateDocument, called by onDidChangeActiveTextEditor with
\* the document of the other editor: this._document is set at once and
\* _initializeContent runs up to its await
UpdateDocument ==
    /\ handled < MaxEvents
    /\ ~panel.life.isDisposed
    /\ handled' = handled + 1
    /\ documentText' = panel.other.text
    /\ savedText' = panel.other.saved
    /\ panel' = [panel EXCEPT !.other = [text |-> documentText, saved |-> savedText],
                              !.initializing = panel.initializing + 1,
                              !.document = OtherDocument(panel.document)]
    /\ last' = Handled(Request("updateDocument", <<>>, NoId, <<>>, 0, <<>>, <<>>), <<>>)
    /\ UNCHANGED <<pendingChange, lastIdMap, idCounter, session, inflight, docVersion, serial>>

\* PreviewPanel._renderHtmlContent: getPreviewHtml of the text of
\* this._document, which calls injectElementIds
RenderHtmlContent ==
    /\ idCounter' = idCounter + IdsUsed(documentText)
    /\ lastIdMap' = injectElementIds(documentText, idCounter)
    /\ panel' = [panel EXCEPT !.initializing = panel.initializing - 1, !.html = "inline",
                              !.injected = documentText]

\* PreviewPanel._startDevServer once start() has returned or thrown: a
\* failure renders the static content, a new URL is stored and shown in an
\* iframe, the stored URL changes nothing
StartDevServer(outcome) ==
    IF outcome = "failed" THEN RenderHtmlContent
    ELSE /\ panel' = IF outcome = "same" THEN [panel EXCEPT !.initializing = panel.initializing - 1]
                     ELSE [panel EXCEPT !.initializing = panel.initializing - 1,
                                        !.devServerUrl = TRUE, !.html = "iframe"]
         /\ UNCHANGED <<lastIdMap, idCounter>>

\* the outcomes of DevServerManager.start()
StartOutcomes == {"failed", "url"} \cup (IF panel.devServerUrl THEN {"same"} ELSE {})

\* PreviewPanel._initializeContent after its await of _detectProjectType,
\* and _startDevServer after its await of start(): nothing on a disposed
\* panel
InitializeContent ==
    /\ panel.initializing > 0
    /\ IF panel.life.isDisposed
       THEN /\ panel' = [panel EXCEPT !.initializing = panel.initializing - 1]
            /\ UNCHANGED <<lastIdMap, idCounter>>
       ELSE \E isReactProject \in BOOLEAN :
                IF isReactProject THEN \E outcome \in StartOutcomes : StartDevServer(outcome)
                ELSE RenderHtmlContent
    /\ UNCHANGED <<documentText, savedText, pendingChange, last, session, handled, inflight,
                   docVersion, serial>>

\* PreviewPanel._onElementDeleted on a message of the page shown
PanelElementDeleted ==
    /\ handled < MaxEvents
    /\ \E l \in PanelLocators :
           Mutation(Request("elementDeleted", l[1], l[2], <<>>, 0, <<>>, <<>>),
                    <<Step(documentText, pendingChange,
                           applyElementDelete(lastIdMap, documentText, l[1], l[2]))>>)

\* PreviewPanel._onElementDuplicated on a message of the page shown
PanelElementDuplicated ==
    /\ handled < MaxEvents
    /\ \E l \in PanelLocators :
           Mutation(Request("elementDuplicated", l[1], l[2], <<>>, 0, <<>>, <<>>),
                    <<Step(documentText, pendingChange,
                           applyElementDuplicate(lastIdMap, documentText, l[1], l[2]))>>)

NextPanel ==
    \/ UpdateDocument
    \/ InitializeContent
    \/ PanelElementDeleted
    \/ PanelElementDuplicated

SpecPanel == Init /\ [][NextPanel]_vars

\* ------------------------------------------------------------------------
\* The path resolver: delete and duplicate by path alone, on texts whose
\* siblings differ in tag, class and id.
\* ------------------------------------------------------------------------
\* a heading and two paragraphs in a div
DocMixed ==
    <<Open("div"), Open("h2"), Text("T"), Close("h2"), Open("p"), Text("One"), Close("p"),
      Open("p"), Text("Two"), Close("p"), Close("div")>>

\* two paragraphs whose class names share a prefix
DocCards ==
    <<Open("div"), [Open("p") EXCEPT !.cls = "card-title"], Text("A"), Close("p"),
      [Open("p") EXCEPT !.cls = "card"], Text("B"), Close("p"), Close("div")>>

\* two sibling divs, the paragraph in the second
DocTwins ==
    <<Open("div"), Open("div"), Open("span"), Text("S"), Close("span"), Close("div"),
      Open("div"), Open("p"), Text("P"), Close("p"), Close("div"), Close("div")>>

ResolverDocs == {DocBody, DocMixed, DocCards, DocTwins}

PathDivPNth(n) == <<Seg("div", "", "", 0), Seg("p", "", "", n)>>
PathDivCard == <<Seg("div", "", "", 0), Seg("p", "", "card", 0)>>
PathDivDivP == <<Seg("div", "", "", 0), Seg("div", "", "", 0), Seg("p", "", "", 0)>>
PathDivDivSpan == <<Seg("div", "", "", 0), Seg("div", "", "", 0), Seg("span", "", "", 0)>>
PathSection == <<Seg("section", "reviews", "", 0)>>

ResolverPaths ==
    {PathReviews, PathSection, PathDiv, PathDivPNth(1), PathDivPNth(2), PathDivPNth(3),
     PathDivCard, PathDivDivP, PathDivDivSpan, PathDivP, PathOuter}

\* CodeSync.applyElementDelete with a path and no identity
DeleteByPath ==
    /\ handled < MaxCalls
    /\ \E path \in ResolverPaths :
           Apply(Request("elementDeleted", path, NoId, <<>>, 0, <<>>, <<>>),
                 applyElementDelete(lastIdMap, documentText, path, NoId))

\* CodeSync.applyElementDuplicate with a path and no identity
DuplicateByPath ==
    /\ handled < MaxCalls
    /\ \E path \in ResolverPaths :
           Apply(Request("elementDuplicated", path, NoId, <<>>, 0, <<>>, <<>>),
                 applyElementDuplicate(lastIdMap, documentText, path, NoId))

NextResolve ==
    \/ DeleteByPath
    \/ DuplicateByPath

InitResolve == InitFrom(ResolverDocs)

SpecResolve == InitResolve /\ [][NextResolve]_vars

\* ------------------------------------------------------------------------
\* Properties
\* ------------------------------------------------------------------------
\* the steps of the message handled last
LastSteps == {last.steps[i] : i \in 1 .. Len(last.steps)}

HasDeletionComment(text) ==
    \E i \in 1 .. Len(SplitLines(text)) : IsDeletionComment(SplitLines(text)[i])

\* the text outside the span [start, end) of before is kept, in order, in after
KeptOutside(before, after, start, end) ==
    /\ Len(after) >= start + (Len(before) - end)
    /\ Substring(after, 0, start) = Substring(before, 0, start)
    /\ SubstringFrom(after, Len(after) - (Len(before) - end)) = SubstringFrom(before, end)

\* C1: two mutation requests are never interleaved.  No message is
\* handled while an edit issued for an earlier one is still in flight, and
\* once every edit has completed the document text is the text that
\* handling the messages one by one produces.
C1_MutationsSerialized ==
    /\ last.queued = 0
    /\ inflight = <<>> => documentText = serial.text

\* C2: rejecting a pending session of one or more mutations sets the
\* document text to exactly the text the document had before the first
\* mutation of the session, with no deletion comment left, and clears the
\* record.
C2_RejectRestoresOriginal ==
    (last.request.op = "reject" /\ last.pendingBefore.active) =>
        /\ documentText = session.oldText
        /\ ~HasDeletionComment(documentText)
        /\ pendingChange = NoPending

\* a session of two recorded mutations, one of them a deletion shown as a
\* comment line, has been rejected
C2_Witness ==
    /\ last.request.op = "reject"
    /\ last.pendingBefore.active
    /\ last.pendingBefore.changeCount >= 2
    /\ HasDeletionComment(last.before)

\* C3: when acceptPendingChange succeeds the text persisted is the
\* newContent of the most recently recorded mutation without the comment
\* lines recordChange inserted for display: those lines are gone, and no
\* other line of newContent is removed.
C3_AcceptPersistsNewText ==
    (last.request.op = "accept" /\ last.pendingBefore.active) =>
        /\ savedText = JoinLines(SelectSeq(SplitLines(last.pendingBefore.newContent),
                                           LAMBDA line : line \notin session.comments))
        /\ documentText = savedText
        /\ \A i \in 1 .. Len(SplitLines(savedText)) :
               SplitLines(savedText)[i] \notin session.comments

\* the locator of a delete or duplicate request resolves to no element
LocatorUnresolved(text, idMap, request) ==
    /\ request.agId = NoId \/ ~findElementById(idMap, text, request.agId).found
    /\ ~findElementByPath(text, sanitizePath(request.path)).found

\* the element of a move request resolves to none, or its destination
\* parent resolves to none in the text the element has been taken out of
MoveUnresolved(text, request) ==
    LET elementLocation == findElementByPath(text, sanitizePath(request.path))
        removed == Substring(text, 0, elementLocation.start)
                     \o SubstringFrom(text, elementLocation.end)
    IN  \/ ~elementLocation.found
        \/ ~findElementByPath(removed, sanitizePath(request.parentPath)).found

\* C4: a delete, duplicate or move request whose locator resolves to no
\* element, or a move whose destination parent resolves to none, returns
\* failure, leaves the document text and the saved file unchanged, and
\* neither creates nor extends the pending record.
C4_UnresolvedLocatorFails ==
    (\/ /\ last.request.op \in {"elementDeleted", "elementDuplicated"}
        /\ LocatorUnresolved(last.before, last.idMapBefore, last.request)
     \/ /\ last.request.op = "elementMoved"
        /\ MoveUnresolved(last.before, last.request))
    => /\ \A s \in LastSteps : ~s.computed.ok /\ ~s.returned
       /\ documentText = last.before
       /\ savedText = last.savedBefore
       /\ pendingChange = last.pendingBefore

\* a move whose element resolves and whose destination parent does not
\* has been handled while a record was pending
C4_Witness ==
    /\ last.request.op = "elementMoved"
    /\ findElementByPath(last.before, sanitizePath(last.request.path)).found
    /\ MoveUnresolved(last.before, last.request)
    /\ last.pendingBefore.active
    /\ last.steps # <<>>

\* C5: a text edit or style edit changes only the element its whole path
\* resolves to, and fails when the path resolves to no element.
C5_EditsResolvedElement ==
    \A s \in LastSteps :
        last.request.op \in {"textEdited", "styleChanged"} =>
            LET loc == findElementByPath(s.before, sanitizePath(last.request.path))
            IN  IF ~loc.found THEN ~s.computed.ok
                ELSE s.computed.ok =>
                         KeptOutside(s.before, s.computed.newContent, loc.start, loc.end)

\* C6: a pending record exists exactly when at least one mutation has been
\* recorded since the last successful accept or reject, and accept and
\* reject without a record change nothing.
C6_PendingIffRecorded ==
    /\ hasPendingChanges(pendingChange) <=> session.recorded > 0
    /\ (last.request.op \in {"accept", "reject"} /\ ~last.pendingBefore.active) =>
           /\ documentText = last.before
           /\ savedText = last.savedBefore
           /\ pendingChange = last.pendingBefore

\* accept has been called with no record, after an earlier session was
\* decided
C6_Witness ==
    /\ last.request.op = "accept"
    /\ ~last.pendingBefore.active
    /\ handled = MaxEvents
    /\ documentText # session.oldText

\* the line numbers of nums whose line of text is not a deletion comment
WithoutComments(nums, text) ==
    SelectSeq(nums, LAMBDA n : ~IsDeletionComment(SplitLines(text)[n + 1]))

\* C7: a mutation recorded while a record is pending keeps the record's
\* original text, replaces its current text, adds one to the change
\* counter and sets the added and deleted lines to the diff of the
\* original text and the new current text, deletion comments not counted
\* as added; a batch that records anything from a clean state ends in one
\* session whose original text is the text before the batch.
C7_AccumulateKeepsOriginal ==
    /\ \A s \in LastSteps :
           (s.returned /\ s.pendingBefore.active) =>
               LET diff == calculateDiff(s.pendingBefore.oldContent, s.computed.newContent)
               IN  /\ s.pendingAfter.oldContent = s.pendingBefore.oldContent
                   /\ s.pendingAfter.newContent = s.computed.newContent
                   /\ s.pendingAfter.changeCount = s.pendingBefore.changeCount + 1
                   /\ s.pendingAfter.addedLines
                        = WithoutComments(diff.addedLines, s.computed.newContent)
                   /\ s.pendingAfter.deletedLines = diff.deletedLines
    /\ (/\ last.request.op = "stylesBatchChanged"
        /\ ~last.pendingBefore.active
        /\ \E s \in LastSteps : s.returned)
       => /\ pendingChange.active
          /\ pendingChange.oldContent = last.before

\* C8: a mutation whose computed text equals the document text returns
\* false and leaves the record and the document as they were.
C8_NoOpLeavesPending ==
    /\ \A s \in LastSteps :
           (s.computed.ok /\ s.computed.newContent = s.before) =>
               /\ ~s.returned
               /\ s.pendingAfter = s.pendingBefore
               /\ s.after = s.before
    /\ (Len(last.steps) = 1 /\ last.steps[1].computed.ok
          /\ last.steps[1].computed.newContent = last.before)
       => /\ pendingChange = last.pendingBefore
          /\ documentText = last.before

\* a mutation that computed the text the document already had has been
\* handled while a record was pending
C8_Witness ==
    \E s \in LastSteps :
        /\ s.computed.ok
        /\ s.computed.newContent = s.before
        /\ s.pendingBefore.active
        /\ pendingChange = s.pendingBefore

C10_DeleteExcisesSpan ==
    \A s \in LastSteps :
        last.request.op = "elementDeleted" =>
            LET byId == findElementById(last.idMapBefore, s.before, last.request.agId)
                byPath == findElementByPath(s.before, sanitizePath(last.request.path))
                span == IF last.request.agId # NoId /\ byId.found THEN byId ELSE byPath
            IN  span.found =>
                    /\ s.computed.ok
                    /\ s.computed.newContent =
                           Substring(s.before, 0, span.start) \o SubstringFrom(s.before, span.end)

\* the span a delete or duplicate request resolves to: the identity when it
\* is given and known, the path otherwise
ResolvedSpan(text, idMap, request) ==
    IF request.agId # NoId /\ findElementById(idMap, text, request.agId).found
    THEN findElementById(idMap, text, request.agId)
    ELSE findElementByPath(text, sanitizePath(request.path))

\* the text with every data-ag-id attribute removed
StripMarkers(text) ==
    [i \in 1 .. Len(text) |->
        IF text[i].k = "open" THEN [text[i] EXCEPT !.agid = NoId] ELSE text[i]]

\* no data-ag-id value occurs in two tags of the text
NoMarkerTwice(text) ==
    \A i, j \in 1 .. Len(text) :
        (i # j /\ text[i].k = "open" /\ text[j].k = "open" /\ text[i].agid # NoId)
            => text[i].agid # text[j].agid

\* C11: a duplicate whose locator resolves to the span [start, end)
\* computes the text up to end, a newline, the span with every data-ag-id
\* attribute removed, and the text from end; no data-ag-id value occurs
\* twice in the result.
C11_DuplicateStripsMarkers ==
    \A s \in LastSteps :
        (last.request.op = "elementDuplicated"
           /\ ResolvedSpan(s.before, last.idMapBefore, last.request).found) =>
            LET span == ResolvedSpan(s.before, last.idMapBefore, last.request)
            IN  /\ s.computed.ok
                /\ s.computed.newContent =
                       Substring(s.before, 0, span.end) \o <<NL>>
                         \o StripMarkers(Substring(s.before, span.start, span.end))
                         \o SubstringFrom(s.before, span.end)
                /\ NoMarkerTwice(s.before) => NoMarkerTwice(s.computed.newContent)

\* the direct children, as the HTML parser sees them, of the element that
\* starts at parentStart: the start offsets in source order
ChildStarts(text, parentStart) ==
    LET nodes == parseHTML(text)
        parents == {n \in 1 .. Len(nodes) : nodes[n].start = parentStart}
        Inside(n, m) == nodes[m].start < nodes[n].start /\ nodes[n].end <= nodes[m].end
    IN  Ascending({nodes[n].start : n \in {c \in 1 .. Len(nodes) :
                      \E q \in parents :
                          /\ Inside(c, q)
                          /\ ~\E m \in 1 .. Len(nodes) : Inside(m, q) /\ Inside(c, m)}})

\* the source text of each direct child, in source order
ChildTexts(text, parentStart) ==
    LET nodes == parseHTML(text)
        starts == ChildStarts(text, parentStart)
        EndOf(st) == (CHOOSE n \in 1 .. Len(nodes) : nodes[n].start = st)
    IN  [c \in 1 .. Len(starts) |->
            Substring(text, starts[c], nodes[EndOf(starts[c])].end)]

InsertInto(seq, k, x) == SubSeq(seq, 1, k) \o <<x>> \o SubSeq(seq, k + 1, Len(seq))

\* C12: a move takes the element out first and resolves the parent in the
\* text without it; when both resolve the move succeeds, and in its result
\* the parent's direct children are its children in the text without the
\* element, in the same order, with the element's unchanged source text
\* inserted at the index requested, clamped to 0 .. number of children.
C12_MovePlacesChild ==
    \A s \in LastSteps :
        last.request.op = "elementMoved" =>
            LET e == findElementByPath(s.before, sanitizePath(last.request.path))
                removed == Removed(s.before, e)
                parent == findElementByPath(removed, sanitizePath(last.request.parentPath))
                kids == ChildTexts(removed, parent.start)
            IN  /\ s.computed.ok <=> (e.found /\ parent.found)
                /\ s.computed.ok =>
                       ChildTexts(s.computed.newContent, parent.start)
                         = InsertInto(kids, Clamp(last.request.newIndex, Len(kids)),
                                      Substring(s.before, e.start, e.end))

\* an element has been moved between two of its siblings, to an index that
\* is not the one it had
C12_Witness ==
    /\ last.request.op = "elementMoved"
    /\ last.request.newIndex = 1
    /\ \E s \in LastSteps :
           /\ s.computed.ok
           /\ Len(ChildTexts(s.computed.newContent,
                             findElementByPath(s.computed.newContent, PathUl).start)) = 3
           /\ ChildTexts(s.computed.newContent,
                         findElementByPath(s.computed.newContent, PathUl).start)
                # ChildTexts(s.before, findElementByPath(s.before, PathUl).start)

\* the index (0-based) of the child that starts at start, -1 when it is
\* no direct child
ChildIndex(text, parentStart, start) ==
    LET starts == ChildStarts(text, parentStart)
    IN  FirstIdx({c \in 0 .. Len(starts) - 1 : starts[c + 1] = start})

NoAdjacentIdentical(texts) ==
    \A c \in 1 .. Len(texts) - 1 : texts[c] # texts[c + 1]

\* the paths with which a moved element is resolved again
MovedPaths == {PathLi1, PathLi2, PathLi3, PathDivP}

\* C13: when an element has been moved to an index of its own parent, no
\* two adjacent children being identical, moving it back to the index it
\* had, with a path that resolves to it in the text after the first move,
\* succeeds and gives the text before the first move.
C13_MoveRoundTrip ==
    \A s \in LastSteps :
        (last.request.op = "elementMoved" /\ s.computed.ok) =>
            LET e == findElementByPath(s.before, sanitizePath(last.request.path))
                parent == findElementByPath(s.before, sanitizePath(last.request.parentPath))
                originalIndex == ChildIndex(s.before, parent.start, e.start)
                moved == s.computed.newContent
                kids == ChildStarts(moved, parent.start)
                movedIndex == Clamp(last.request.newIndex, Len(kids) - 1)
            IN  (/\ parent.found
                 /\ originalIndex # -1
                 /\ NoAdjacentIdentical(ChildTexts(s.before, parent.start)))
                => \A path \in MovedPaths :
                       (/\ findElementByPath(moved, path).found
                        /\ findElementByPath(moved, path).start = kids[movedIndex + 1])
                       => LET back == applyElementMove(moved, path, last.request.parentPath,
                                                       originalIndex)
                          IN  back.ok /\ back.newContent = s.before

\* the open tag applyTextEdit and applyStyleEdit work on is the open tag
\* of the element the whole path resolves to
LocatesResolved(text, path) ==
    /\ findElementByPath(text, sanitizePath(path)).found
    /\ ~parseElementPath(path).isNull
    /\ MatchElementRegex(text, parseElementPath(path))
         = findElementByPath(text, sanitizePath(path)).start

\* C14: a text edit on an element replaces exactly the text between the
\* end of its open tag and the start of its matching close tag, the close
\* tag the depth-aware scan finds; the text before and after is unchanged.
C14_TextEditReplacesInner ==
    \A s \in LastSteps :
        (last.request.op = "textEdited" /\ LocatesResolved(s.before, last.request.path)) =>
            LET element == findElementByPath(s.before, sanitizePath(last.request.path))
            IN  /\ s.computed.ok
                /\ s.computed.newContent =
                       Substring(s.before, 0, element.openTagEnd) \o last.request.newText
                         \o SubstringFrom(s.before, element.closeTagStart)

\* the offset of the first run of text that follows offset at on the
\* source line of at, -1 when the line has none
FirstTextOnLine(text, at) ==
    FirstIdx({i \in at + 1 .. Len(text) - 1 :
                 /\ CharAt(text, i).k = "text"
                 /\ \A j \in at .. i : CharAt(text, j).k # "nl"})

\* the open tag a text edit locates has no matching close tag
NoMatchingClose(text, path) ==
    /\ ~parseElementPath(path).isNull
    /\ MatchElementRegex(text, parseElementPath(path)) # -1
    /\ findMatchingCloseTag(text, MatchElementRegex(text, parseElementPath(path)) + 1,
                            parseElementPath(path).tagName).start = -1

\* C15: a text edit that locates an open tag with no matching close tag
\* does not fail: it replaces the first run of text on the line of the
\* open tag, nothing else, and returns the new text.
C15_TextEditDegrades ==
    \A s \in LastSteps :
        (last.request.op = "textEdited" /\ NoMatchingClose(s.before, last.request.path)) =>
            LET at == MatchElementRegex(s.before, parseElementPath(last.request.path))
                run == FirstTextOnLine(s.before, at)
            IN  /\ s.computed.ok
                /\ run # -1 =>
                       s.computed.newContent =
                           Substring(s.before, 0, run) \o last.request.newText
                             \o SubstringFrom(s.before, run + 1)

\* the offset of the open tag a style edit locates, -1 when there is none
StyledAt(text, path) ==
    IF parseElementPath(path).isNull THEN -1
    ELSE MatchElementRegex(text, parseElementPath(path))

\* the declarations of a style attribute value, without the separators
Declarations(items) == SelectSeq(items, LAMBDA item : item.d = "decl")

\* text with the style attribute of the open tag at offset at set to items
\* and nothing else changed, the end of the tag included
WithStyle(text, at, items) ==
    Substring(text, 0, at)
      \o <<[CharAt(text, at) EXCEPT !.style = [has |-> TRUE, items |-> items]]>>
      \o SubstringFrom(text, at + 1)

\* C16: a style edit of an element whose open tag has no style attribute
\* gives the tag one style attribute with the one declaration
\* kebab-case(property): value, placed before the end of the tag, so that
\* a tag ending with ">" and a tag ending with "/>" keep their ending.
C16_StyleAttributeInserted ==
    \A s \in LastSteps :
        (/\ last.request.op = "styleChanged"
         /\ StyledAt(s.before, last.request.path) # -1
         /\ ~CharAt(s.before, StyledAt(s.before, last.request.path)).style.has) =>
            LET at == StyledAt(s.before, last.request.path)
                declaration == StyleDecl(CamelToKebab(last.request.styles[1][1]),
                                         last.request.styles[1][2])
            IN  /\ s.computed.ok
                /\ \E items \in {<<declaration>>, <<declaration, Semi>>} :
                       s.computed.newContent = WithStyle(s.before, at, items)

\* the declarations a style edit is to leave: the value of every
\* declaration named cssProperty replaced, or the declaration appended
WithProperty(declarations, cssProperty, value) ==
    IF \E i \in 1 .. Len(declarations) : declarations[i].p = cssProperty
    THEN [i \in 1 .. Len(declarations) |->
             IF declarations[i].p = cssProperty THEN StyleDecl(cssProperty, value)
             ELSE declarations[i]]
    ELSE declarations \o <<StyleDecl(cssProperty, value)>>

\* C17: a style edit of an element that has a style attribute replaces the
\* value of the declaration named as the requested property, or appends
\* the declaration when no declaration has that name; every other
\* declaration, background-color when color is edited included, is kept.
C17_StyleDeclarationReplaced ==
    \A s \in LastSteps :
        (/\ last.request.op = "styleChanged"
         /\ StyledAt(s.before, last.request.path) # -1
         /\ CharAt(s.before, StyledAt(s.before, last.request.path)).style.has) =>
            LET at == StyledAt(s.before, last.request.path)
            IN  /\ s.computed.ok
                /\ Len(s.computed.newContent) = Len(s.before)
                /\ CharAt(s.computed.newContent, at).k = "open"
                /\ s.computed.newContent =
                       WithStyle(s.before, at, CharAt(s.computed.newContent, at).style.items)
                /\ Declarations(CharAt(s.computed.newContent, at).style.items) =
                       WithProperty(Declarations(CharAt(s.before, at).style.items),
                                    CamelToKebab(last.request.styles[1][1]),
                                    last.request.styles[1][2])

\* the counter value at which the parse of the rendered text began
InjectedBase == idCounter - IdsUsed(panel.injected)

\* the text without the injected attributes
StripInjected(text) == SelectSeq(text, LAMBDA t : t.k # "marker")

\* the nodes of a parse that injectElementIds marks
MarkedNodes(nodes) == {n \in 1 .. Len(nodes) : nodes[n].tagName \notin SkippedTags}

\* C20: injectElementIds puts one attribute in the open tag of every
\* element whose tag is not excluded and none elsewhere; without the
\* attributes the returned text is the input text; every map entry holds
\* the offsets of its element in the input text; the map is lastIdMap.
C20_InjectionPreservesText ==
    LET text == panel.injected
        nodes == parseHTML(text)
        r == InjectedResult(text, InjectedBase)
    IN  /\ StripInjected(r.content) = text
        /\ Len(r.content) = Len(text) + Cardinality(MarkedNodes(nodes))
        /\ \A n \in MarkedNodes(nodes) :
               LET at == nodes[n].start
                            + Cardinality({m \in MarkedNodes(nodes) : nodes[m].start < nodes[n].start})
               IN  /\ CharAt(r.content, at) = CharAt(text, nodes[n].start)
                   /\ CharAt(r.content, at + 1) = Marker(InjectedBase + n - 1)
        /\ DOMAIN r.idMap = {InjectedBase + n - 1 : n \in MarkedNodes(nodes)}
        /\ \A id \in DOMAIN r.idMap :
               /\ r.idMap[id] = nodes[id - InjectedBase + 1]
               /\ CharAt(text, r.idMap[id].start).k = "open"
               /\ CharAt(text, r.idMap[id].start).tag = r.idMap[id].tagName
               /\ r.idMap[id].end <= Len(text)
        /\ r.idMap = lastIdMap

\* a text with an excluded element and two marked ones has been parsed
\* again after an edit
C20_Witness ==
    /\ InjectedBase > 0
    /\ panel.injected # last.injectedBefore
    /\ Cardinality(MarkedNodes(parseHTML(panel.injected))) >= 2
    /\ MarkedNodes(parseHTML(panel.injected)) # 1 .. Len(parseHTML(panel.injected))

\* the identities of the attributes in a preview text
IssuedMarkers(text) == {text[i].agid : i \in {j \in 1 .. Len(text) : text[j].k = "marker"}}

\* findElementById finds exactly the identities the last injectElementIds
\* put in the preview text, which are pairwise distinct and are values
\* idCounter has had
IdentitiesCurrent ==
    LET content == InjectedResult(panel.injected, InjectedBase).content
    IN  /\ \A id \in 0 .. idCounter + 1 :
               findElementById(lastIdMap, documentText, id).found <=> id \in IssuedMarkers(content)
        /\ Cardinality(IssuedMarkers(content)) = Len(content) - Len(panel.injected)
        /\ \A id \in DOMAIN lastIdMap : id < idCounter

\* a call of injectElementIds issues no identity idCounter has had before
IdentitiesFresh ==
    (idCounter' # idCounter \/ lastIdMap' # lastIdMap) =>
        /\ \A id \in DOMAIN lastIdMap' : id >= idCounter
        /\ DOMAIN lastIdMap' \cap DOMAIN lastIdMap = {}

\* C18: after any calls of injectElementIds, findElementById returns a
\* location for an identity if and only if the most recent call issued it;
\* the identities of one call are pairwise distinct, and no call issues an
\* identity that an earlier call issued.
C18_IdentitiesOfLastParse == []IdentitiesCurrent /\ [][IdentitiesFresh]_vars

\* a request carried an identity of an earlier parse, which the map of
\* the last parse before it did not hold, and the text has been parsed
\* again since
C18_Witness ==
    /\ last.request.agId # NoId
    /\ last.idMapBefore # <<>>
    /\ last.request.agId \notin DOMAIN last.idMapBefore
    /\ \A id \in DOMAIN last.idMapBefore : id > last.request.agId
    /\ lastIdMap # last.idMapBefore
    /\ DOMAIN lastIdMap # {}

\* C19: a delete or duplicate that finds its identity in the stored map
\* applies offsets that were computed from the text it cuts or copies: the
\* text injectElementIds parsed last is the text of the document.
C19_OffsetsFromMutatedText ==
    \A s \in LastSteps :
        (/\ last.request.op \in {"elementDeleted", "elementDuplicated"}
         /\ last.request.agId \in DOMAIN last.idMapBefore) =>
            last.injectedBefore = s.before

\* the element a delete or duplicate by path resolved in the text it read
ResolvedByPath(s) == findElementByPath(s.before, sanitizePath(last.request.path))

\* the last handled request is a delete or duplicate by path alone
ByPathAlone ==
    /\ last.request.op \in {"elementDeleted", "elementDuplicated"}
    /\ last.request.agId = NoId

\* the last segment of the path the resolver read
LastSegment == With(sanitizePath(last.request.path), LAMBDA path : path[Len(path)])

\* the offsets of the open tags with the given id inside the search window
WithId(text, id) ==
    {i \in SearchWindow(text).start .. SearchWindow(text).end - 1 :
        CharAt(text, i).k = "open" /\ CharAt(text, i).id = id}

\* C21: a path that is one segment giving only an id resolves to the
\* element that carries the id, whatever its tag: #reviews resolves to
\* <section id="reviews">.
C21_IdOnlyMatchesAnyTag ==
    \A s \in LastSteps :
        (/\ ByPathAlone
         /\ Len(sanitizePath(last.request.path)) = 1
         /\ LastSegment.tag = "" /\ LastSegment.id # ""
         /\ WithId(s.before, LastSegment.id) # {}) =>
            /\ ResolvedByPath(s).found
            /\ ResolvedByPath(s).start = MinOf(WithId(s.before, LastSegment.id))

\* the node of the parse that opens at offset at, 0 when there is none
NodeAt(nodes, at) ==
    IF \E n \in 1 .. Len(nodes) : nodes[n].start = at
    THEN CHOOSE n \in 1 .. Len(nodes) : nodes[n].start = at
    ELSE 0

\* the nodes whose span holds the span of node n
Ancestors(nodes, n) ==
    {m \in 1 .. Len(nodes) : nodes[m].start < nodes[n].start /\ nodes[n].end <= nodes[m].end}

\* the innermost of them, 0 for a root
ParentOf(nodes, n) ==
    IF Ancestors(nodes, n) = {} THEN 0
    ELSE CHOOSE m \in Ancestors(nodes, n) :
             \A other \in Ancestors(nodes, n) : nodes[other].start <= nodes[m].start

\* the 1-based position of node n among the element children of its parent
StructuralOrdinal(nodes, n) ==
    1 + Cardinality({m \in 1 .. Len(nodes) :
                        /\ ParentOf(nodes, m) = ParentOf(nodes, n)
                        /\ nodes[m].start < nodes[n].start})

\* C22: a segment with ordinal N resolves only to an element that is the
\* N-th element child of its parent, every element sibling counted
\* whatever its tag.
C22_OrdinalIsStructural ==
    \A s \in LastSteps :
        (/\ ByPathAlone
         /\ sanitizePath(last.request.path) # <<>>
         /\ LastSegment.nth # 0 /\ LastSegment.id = ""
         /\ ResolvedByPath(s).found) =>
            LET nodes == parseHTML(s.before)
            IN  /\ NodeAt(nodes, ResolvedByPath(s).start) # 0
                /\ StructuralOrdinal(nodes, NodeAt(nodes, ResolvedByPath(s).start))
                       = LastSegment.nth

\* C23: a segment with a class name resolves only to an element that has
\* the class name as one of its class tokens; a longer class name that
\* contains it does not count.
C23_ClassIsToken ==
    \A s \in LastSteps :
        (/\ ByPathAlone
         /\ sanitizePath(last.request.path) # <<>>
         /\ LastSegment.cls # "" /\ LastSegment.id = ""
         /\ ResolvedByPath(s).found) =>
            CharAt(s.before, ResolvedByPath(s).start).cls = LastSegment.cls

\* the node inside which the first segment is searched: <body>, or none
WindowNode(text, nodes) ==
    IF \E n \in 1 .. Len(nodes) : nodes[n].tagName = "body"
    THEN CHOOSE n \in 1 .. Len(nodes) :
             /\ nodes[n].tagName = "body"
             /\ \A m \in 1 .. Len(nodes) : nodes[m].tagName = "body" => nodes[n].start <= nodes[m].start
    ELSE 0

\* the element children of node parent that a segment matches by tag and
\* class
MatchingChildren(text, nodes, parent, segment) ==
    {n \in 1 .. Len(nodes) :
        /\ ParentOf(nodes, n) = parent
        /\ Matches(CharAt(text, nodes[n].start), parsePathSegment(segment), 0)}

\* the first of a set of nodes in source order, 0 for the empty set
FirstNode(nodes, S) ==
    IF S = {} THEN 0 ELSE CHOOSE n \in S : \A m \in S : nodes[n].start <= nodes[m].start

\* the descent that takes, at each level, the first matching child of the
\* node taken at the level before, and stops when there is none
RECURSIVE FirstMatchDescent(_, _, _, _)
FirstMatchDescent(text, nodes, parent, segments) ==
    IF segments = <<>> THEN parent
    ELSE With(FirstNode(nodes, MatchingChildren(text, nodes, parent, Head(segments))),
              LAMBDA child :
              IF child = 0 THEN -1
              ELSE FirstMatchDescent(text, nodes, child, Tail(segments)))

\* some chain of matching children, first or not, leads to a match of the
\* whole path
RECURSIVE SomeDescent(_, _, _, _)
SomeDescent(text, nodes, parent, segments) ==
    \/ segments = <<>>
    \/ /\ segments # <<>>
       /\ \E child \in MatchingChildren(text, nodes, parent, Head(segments)) :
              SomeDescent(text, nodes, child, Tail(segments))

\* the path has no id and no ordinal
PlainPath(path) ==
    /\ path # <<>>
    /\ \A i \in 1 .. Len(path) : path[i].id = "" /\ path[i].nth = 0

\* every element of the text that is not self-closing has its close tag
Balanced(text) ==
    \A n \in 1 .. Len(parseHTML(text)) :
        With(parseHTML(text)[n], LAMBDA node :
             IsSelfClosing(CharAt(text, node.start))
               \/ findMatchingCloseTag(text, node.start + 1, node.tagName).end = node.end)

Unparsable(text) == ~Balanced(text)

\* C26: while the text of the document cannot be parsed every mutation
\* request is refused: the operation fails, the text stays as it was and
\* the pending record is not touched.
C26_UnparsableRefusesMutation ==
    \A s \in LastSteps :
        Unparsable(s.before) =>
            /\ ~s.computed.ok
            /\ s.after = s.before
            /\ s.pendingAfter = s.pendingBefore

\* ------------------------------------------------------------------------
\* The drag rearrangement: the script of the webview on a static page, and
\* the webview with the bridge script of the iframe on a dev server page.
\* ------------------------------------------------------------------------
\* the children of the parent of the selected element
Siblings == 3

\* the mouse releases of a run
MaxReleases == 2

\* the messages between the two windows that wait to be handled
MaxQueue == 2

Places == 0 .. Siblings - 1

isIframe == panel.html = "iframe"

\* a message between the windows; release (history) numbers the mouse
\* release that a bridgeDragEnd reports
Msg(type, newIndex, release) == [type |-> type, newIndex |-> newIndex, release |-> release]

\* getElementPath(element), its last selector: 'li:nth-child(idx)' with idx
\* one more than the place the element has among the children of its
\* parent in the page
getElementPath(index) == index + 1

\* vscode.postMessage({type: 'elementMoved', data: {path, newIndex, ...}});
\* path and newIndex are taken from the page together, at the release, by
\* finalizeRearrange and by the mouseup listener of the bridge
postElementMoved(w, newIndex, release) ==
    [w EXCEPT !.posted = Append(w.posted, [newIndex |-> newIndex, release |-> release,
                                           path |-> getElementPath(newIndex)])]

\* a step of the page: the scripts change, the extension has handled
\* nothing
Drag(w) ==
    /\ panel' = [panel EXCEPT !.webview = w]
    /\ UNCHANGED <<documentText, savedText, pendingChange, lastIdMap, idCounter, last, session,
                   handled, inflight, docVersion, serial>>

\* a variant of liveRearrange that reports every move to the extension
liveRearrangeReporting(w, place) ==
    IF w.index = place THEN w
    ELSE postElementMoved([w EXCEPT !.index = place, !.hasMovedFromOriginal = TRUE],
                      place, Len(w.releases) + 1)

\* liveRearrange(mouseY): the mouse is above the centre of the sibling at
\* place, or below all of them when place is the last; the element moves
\* in the page when it is not there already
liveRearrange(w, place) ==
    IF w.index = place THEN w
    ELSE [w EXCEPT !.index = place, !.hasMovedFromOriginal = TRUE]

\* finalizeRearrange of an element of the page: newIndex is
\* getElementIndex(draggedElement)
finalizeRearrange(w) == postElementMoved(w, w.index, Len(w.releases) + 1)

cleanupDrag(w) ==
    [w EXCEPT !.isDragging = FALSE, !.currentDragMode = FALSE, !.hasMovedFromOriginal = FALSE]

\* onClick of an element of the static page: selectElement
OnClick ==
    /\ ~isIframe
    /\ ~panel.webview.isDragging
    /\ \E place \in Places :
           Drag([panel.webview EXCEPT !.selectedElement = TRUE, !.index = place,
                                      !.origin = place])

\* the rearrange button of the toolbar of the selected element:
\* startDragMode('rearrange') enters the mode or leaves it, and tells the
\* bridge
StartDragMode ==
    LET w == panel.webview
        mode == ~w.currentDragMode
    IN  /\ w.selectedElement
        /\ isIframe => Len(w.toBridge) < MaxQueue
        /\ Drag([w EXCEPT !.currentDragMode = mode,
                          !.toBridge = IF isIframe
                                       THEN Append(w.toBridge,
                                                   IF mode THEN "enterDragMode" ELSE "exitDragMode")
                                       ELSE w.toBridge])

\* onMouseDown on the selected element of the static page
OnMouseDown ==
    LET w == panel.webview
    IN  /\ ~isIframe
        /\ w.currentDragMode /\ w.selectedElement
        /\ Drag([w EXCEPT !.isDragging = TRUE, !.hasMovedFromOriginal = FALSE])

\* onMouseMove
OnMouseMove ==
    LET w == panel.webview
    IN  /\ ~isIframe
        /\ w.isDragging
        /\ \E place \in Places :
               Drag(IF w.currentDragMode THEN liveRearrange(w, place) ELSE w)

\* onMouseUp: the release
OnMouseUp ==
    LET w == panel.webview
        done == IF w.currentDragMode /\ w.hasMovedFromOriginal THEN finalizeRearrange(w) ELSE w
    IN  /\ ~isIframe
        /\ w.isDragging
        /\ Len(w.releases) < MaxReleases
        /\ Drag([cleanupDrag(done) EXCEPT !.releases = Append(w.releases, w.index),
                                       !.dragged = Append(w.dragged, w.origin)])

\* bridge.js, click: the element is selected and the webview is told
BridgeClick ==
    LET w == panel.webview
    IN  /\ isIframe
        /\ ~w.bridge.isDragging
        /\ Len(w.toWebview) < MaxQueue
        /\ \E place \in Places :
               Drag([w EXCEPT !.bridge.selectedElement = TRUE, !.index = place,
                              !.origin = place,
                              !.toWebview = Append(w.toWebview,
                                                   Msg("bridgeElementSelected", 0, 0))])

\* bridge.js, mousemove: handleLiveRearrange moves the element in the page
\* and posts rearrangeUpdate
BridgeMouseMove ==
    LET w == panel.webview
    IN  /\ isIframe
        /\ w.bridge.isDragging /\ w.bridge.selectedElement
        /\ Len(w.toWebview) < MaxQueue
        /\ \E place \in Places :
               Drag([w EXCEPT !.index = place,
                              !.toWebview = Append(w.toWebview,
                                                   Msg("rearrangeUpdate", place, 0))])

\* bridge.js, mouseup: the release; bridgeDragEnd carries
\* getElementIndex(selectedElement)
BridgeMouseUp ==
    LET w == panel.webview
    IN  /\ isIframe
        /\ w.bridge.isDragging /\ w.bridge.selectedElement
        /\ Len(w.toWebview) < MaxQueue
        /\ Len(w.releases) < MaxReleases
        /\ Drag([w EXCEPT !.bridge.isDragging = FALSE,
                          !.releases = Append(w.releases, w.index),
                          !.dragged = Append(w.dragged, w.origin),
                          !.toWebview = Append(w.toWebview,
                                               Msg("bridgeDragEnd", w.index,
                                                   Len(w.releases) + 1))])

\* bridge.js, the message listener: enterDragMode and exitDragMode
BridgeMessage ==
    LET w == panel.webview
    IN  /\ isIframe
        /\ w.toBridge # <<>>
        /\ Drag([w EXCEPT !.toBridge = Tail(w.toBridge),
                          !.bridge.isDragging = Head(w.toBridge) = "enterDragMode"])

\* handleMessage of the webview on a message of the bridge
handleMessage(w, msg) ==
    IF msg.type = "bridgeElementSelected" THEN [w EXCEPT !.selectedElement = TRUE]
    ELSE IF msg.type = "rearrangeUpdate"
    THEN [w EXCEPT !.hasMovedFromOriginal = w.hasMovedFromOriginal \/ w.selectedElement]
    ELSE \* bridgeDragEnd
         [(IF w.selectedElement
           THEN postElementMoved([w EXCEPT !.hasMovedFromOriginal = TRUE], msg.newIndex, msg.release)
           ELSE w)
          EXCEPT !.isDragging = FALSE, !.currentDragMode = FALSE]

HandleMessage ==
    LET w == panel.webview
    IN  /\ isIframe
        /\ w.toWebview # <<>>
        /\ Drag(handleMessage([w EXCEPT !.toWebview = Tail(w.toWebview)], Head(w.toWebview)))

NextDrag ==
    \/ OnClick
    \/ StartDragMode
    \/ OnMouseDown
    \/ OnMouseMove
    \/ OnMouseUp
    \/ BridgeClick
    \/ BridgeMouseMove
    \/ BridgeMouseUp
    \/ BridgeMessage
    \/ HandleMessage

InitDrag ==
    \E devServerUrl \in BOOLEAN :
        InitShown({DocList}, devServerUrl, IF devServerUrl THEN "iframe" ELSE "inline")

SpecDrag == InitDrag /\ [][NextDrag]_vars

\* every elementMoved posted reports one mouse release and carries the
\* place the element had in the page at that release, and no release is
\* reported twice
MovedAtRelease ==
    LET w == panel.webview
    IN  /\ \A i \in 1 .. Len(w.posted) :
              /\ w.posted[i].release \in 1 .. Len(w.releases)
              /\ w.posted[i].newIndex = w.releases[w.posted[i].release]
        /\ \A i, j \in 1 .. Len(w.posted) :
              w.posted[i].release = w.posted[j].release => i = j

\* a step posts elementMoved only when it is the release or handles the
\* bridgeDragEnd of a release, and then posts one; a move of the element
\* in the page and a change of the drag mode post nothing
MovedByRelease ==
    LET w == panel.webview
    IN  w.posted' # w.posted =>
            /\ Len(w.posted') = Len(w.posted) + 1
            /\ \/ w.releases' # w.releases
               \/ /\ w.toWebview # <<>>
                  /\ Head(w.toWebview).type = "bridgeDragEnd"
                  /\ w.index' = w.index
                  /\ w.currentDragMode' = FALSE

\* C27: during a drag rearrangement the moves of the element change only
\* the page shown; elementMoved is posted to the extension only at the
\* release of the mouse, at most once for a release and with the place
\* the element has at the release, and leaving the drag mode posts
\* nothing.
C27_MovedOncePerRelease == []MovedAtRelease /\ [][MovedByRelease]_vars

\* the element was dragged twice, one drag moved it and was reported, the
\* other did not move it
C27_Witness ==
    LET w == panel.webview
    IN  /\ Len(w.releases) = 2
        /\ Len(w.posted) = 1
        /\ w.posted[1].newIndex = w.releases[w.posted[1].release]

\* the requests that change the text
MutationOps ==
    {"textEdited", "styleChanged", "stylesBatchChanged", "elementMoved", "elementDeleted",
     "elementDuplicated"}

\* C28: the pending records are kept by document: a mutation of a
\* document while the pending record is that of the other document leaves
\* that record as it was.
C28_RecordsPerDocument ==
    (/\ last.request.op \in MutationOps
     /\ last.pendingBefore.active
     /\ session.document # panel.document) =>
        pendingChange = last.pendingBefore

\* ------------------------------------------------------------------------
\* calculateDiff on its own: old and new texts of a few short lines, some
\* repeated, some blank.
\* ------------------------------------------------------------------------
\* the lines of a text
MaxLines == 3

\* the lines: three contents, the empty line and a line of white space
DiffLines == {<<Text("A")>>, <<Text("B")>>, <<Text("X")>>, <<>>, <<WS>>}

RECURSIVE LinesOf(_)
LinesOf(n) ==
    IF n = 0 THEN {<<>>}
    ELSE {Append(lines, line) : lines \in LinesOf(n - 1), line \in DiffLines}

DiffTexts == {JoinLines(lines) : lines \in UNION {LinesOf(n) : n \in 1 .. MaxLines}}

\* calculateDiff(oldContent, newContent) of the text of the document and a
\* new text; the two texts and the result are kept in the fields of the
\* record, matchedOld and matchedNew in last.matched
CalculateDiff ==
    /\ handled = 0
    /\ handled' = 1
    /\ \E newContent \in DiffTexts :
           With(calculateDiff(documentText, newContent), LAMBDA diff :
                /\ pendingChange' = [NoPending EXCEPT !.oldContent = documentText,
                                                      !.newContent = newContent,
                                                      !.addedLines = diff.addedLines,
                                                      !.deletedLines = diff.deletedLines]
                /\ last' = [last EXCEPT !.matched =
                                ForwardPass(SplitLines(documentText), SplitLines(newContent),
                                            0, NoMatching)])
    /\ UNCHANGED <<documentText, savedText, lastIdMap, idCounter, session, inflight,
                   docVersion, serial, panel>>

NextDiff == CalculateDiff

InitDiff == InitFrom(DiffTexts)

SpecDiff == InitDiff /\ [][NextDiff]_vars

\* the diff has been computed
Diffed == handled = 1 /\ ~pendingChange.active

\* C29: the diff of a text with itself has no added line and no deleted
\* line, also when lines of the text repeat or are blank.
C29_DiffOfSameTextIsEmpty ==
    (Diffed /\ pendingChange.oldContent = pendingChange.newContent) =>
        /\ pendingChange.addedLines = <<>>
        /\ pendingChange.deletedLines = <<>>

\* a text with a repeated line and a blank line was compared with itself
C29_Witness ==
    /\ Diffed
    /\ pendingChange.oldContent = JoinLines(<<<<Text("A")>>, <<>>, <<Text("A")>>>>)
    /\ pendingChange.newContent = pendingChange.oldContent
    /\ pendingChange.addedLines = <<>>
    /\ pendingChange.deletedLines = <<>>

\* the two texts have the same number of lines and differ in line k only
\* (counted from 0), which is blank in neither, and neither content of
\* line k occurs in another line of either text
OneLineChanged(oldLines, newLines, k) ==
    /\ Len(oldLines) = Len(newLines)
    /\ k \in 0 .. Len(oldLines) - 1
    /\ ~IsBlank(oldLines[k + 1]) /\ ~IsBlank(newLines[k + 1])
    /\ oldLines[k + 1] # newLines[k + 1]
    /\ \A i \in 0 .. Len(oldLines) - 1 :
           i # k => /\ oldLines[i + 1] = newLines[i + 1]
                    /\ oldLines[i + 1] \notin {oldLines[k + 1], newLines[k + 1]}

\* C30: when the old and the new text have the same number of lines and
\* differ in one line k that is not blank, whose old and new content occur
\* nowhere else in the two texts, the diff has the one added line k and
\* the one deleted line with the old content of line k and the anchor k.
C30_OneChangedLine ==
    Diffed =>
        LET oldLines == SplitLines(pendingChange.oldContent)
            newLines == SplitLines(pendingChange.newContent)
        IN  \A k \in 0 .. Len(oldLines) - 1 :
                OneLineChanged(oldLines, newLines, k) =>
                    /\ pendingChange.addedLines = <<k>>
                    /\ pendingChange.deletedLines =
                           <<[afterLine |-> k, content |-> oldLines[k + 1]]>>

\* A, B, A was compared with A, X, A
C30_Witness ==
    /\ Diffed
    /\ pendingChange.oldContent = JoinLines(<<<<Text("A")>>, <<Text("B")>>, <<Text("A")>>>>)
    /\ pendingChange.newContent = JoinLines(<<<<Text("A")>>, <<Text("X")>>, <<Text("A")>>>>)
    /\ pendingChange.addedLines = <<1>>
    /\ pendingChange.deletedLines = <<[afterLine |-> 1, content |-> <<Text("B")>>]>>

\* the lines numbered in S, in increasing order
LinesAt(lines, S) == [i \in 1 .. Cardinality(S) |-> lines[Ascending(S)[i] + 1]]

\* how many of the lines numbered in S have the content line
Count(lines, S, line) == Cardinality({i \in S : lines[i + 1] = line})

\* C33: the diff claims an old line for at most one new line and only for
\* a new line of the same content (as many old lines of a content are
\* claimed as new lines of that content are matched); every new line that
\* is not blank is matched or is in addedLines, every old line that is not
\* blank is claimed or is in deletedLines, and no blank line is in either.
C33_MatchingAndSets ==
    Diffed =>
        LET oldLines == SplitLines(pendingChange.oldContent)
            newLines == SplitLines(pendingChange.newContent)
            m == last.matched
            unmatchedNew == {n \in 0 .. Len(newLines) - 1 :
                                 n \notin m.matchedNew /\ ~IsBlank(newLines[n + 1])}
            unclaimedOld == {o \in 0 .. Len(oldLines) - 1 :
                                 o \notin m.matchedOld /\ ~IsBlank(oldLines[o + 1])}
        IN  /\ m.matchedOld \subseteq 0 .. Len(oldLines) - 1
            /\ m.matchedNew \subseteq 0 .. Len(newLines) - 1
            /\ \A line \in DiffLines :
                   Count(oldLines, m.matchedOld, line) = Count(newLines, m.matchedNew, line)
            /\ pendingChange.addedLines = Ascending(unmatchedNew)
            /\ [i \in 1 .. Len(pendingChange.deletedLines) |->
                   pendingChange.deletedLines[i].content] = LinesAt(oldLines, unclaimedOld)

\* A, B was compared with A, a blank line, X: one line matched, the blank
\* line in no set, X added and B deleted
C33_Witness ==
    /\ Diffed
    /\ pendingChange.oldContent = JoinLines(<<<<Text("A")>>, <<Text("B")>>>>)
    /\ pendingChange.newContent = JoinLines(<<<<Text("A")>>, <<>>, <<Text("X")>>>>)
    /\ last.matched.matchedOld = {0} /\ last.matched.matchedNew = {0}
    /\ pendingChange.addedLines = <<2>>
    /\ Len(pendingChange.deletedLines) = 1

\* the numbers of the lines of the record's newContent that are added
\* against its oldContent and are not deletion comments
AddedOfRecord ==
    LET newLines == SplitLines(pendingChange.newContent)
    IN  SelectSeq(calculateDiff(pendingChange.oldContent, pendingChange.newContent).addedLines,
                  LAMBDA n : ~IsDeletionComment(newLines[n + 1]))

\* C36: while a change is pending every number in the record's addedLines
\* is the number, in the text of the document as displayed (with the
\* deletion comments inserted), of a line whose content is an added line
\* of newContent, and no added line of newContent is missing from
\* addedLines.
C36_AddedLinesOnDisplayedText ==
    pendingChange.active =>
        LET shown == SplitLines(documentText)
            newLines == SplitLines(pendingChange.newContent)
            added == {newLines[AddedOfRecord[i] + 1] : i \in 1 .. Len(AddedOfRecord)}
        IN  /\ \A i \in 1 .. Len(pendingChange.addedLines) :
                   /\ pendingChange.addedLines[i] < Len(shown)
                   /\ shown[pendingChange.addedLines[i] + 1] \in added
            /\ Len(pendingChange.addedLines) = Len(AddedOfRecord)

\* ------------------------------------------------------------------------
\* The tag scans by the character: the loops of findMatchingCloseTag,
\* findElementInRange and applyElementMove, one iteration a step, on every
\* short text over the characters that the scans tell apart.
\* ------------------------------------------------------------------------
\* the characters of a text
MaxChars == 5

ScanChars == {"<", "/", ">", "!", "-", "p"}

RECURSIVE StringsOf(_)
StringsOf(n) ==
    IF n = 0 THEN {<<>>}
    ELSE {Append(str, c) : str \in StringsOf(n - 1), c \in ScanChars}

ScanTexts == UNION {StringsOf(n) : n \in 0 .. MaxChars}

\* content[i], undefined outside the text
At(content, i) == IF i >= 0 /\ i < Len(content) THEN content[i + 1] ELSE ""

\* content.substring(i, i + Len(pattern)) === pattern
StartsWithAt(content, pattern, i) ==
    \A j \in 1 .. Len(pattern) : At(content, i + j - 1) = pattern[j]

\* content.indexOf(pattern, from)
indexOf(content, pattern, from) ==
    FirstIdx({i \in (IF from > 0 THEN from ELSE 0) .. Len(content) - Len(pattern) :
                  StartsWithAt(content, pattern, i)})

\* the length of the name /^[a-zA-Z][a-zA-Z0-9]*/ at i, 0 when there is none
RECURSIVE NameLen(_, _)
NameLen(content, i) == IF At(content, i) = "p" THEN 1 + NameLen(content, i + 1) ELSE 0

\* the length of the match of /^<\/([a-zA-Z][a-zA-Z0-9]*)\s*>/ at tagStart,
\* 0 when there is none
CloseTagLen(content, tagStart) ==
    With(NameLen(content, tagStart + 2), LAMBDA n :
         IF At(content, tagStart) = "<" /\ At(content, tagStart + 1) = "/" /\ n > 0
            /\ At(content, tagStart + 2 + n) = ">"
         THEN n + 3 ELSE 0)

\* the tag name the scans look for
ScanTag == <<"p">>

NameAt(content, i, n) == [j \in 1 .. n |-> At(content, i + j - 1)]

\* fullTag.endsWith('/>')
EndsSelfClosing(content, tagEnd) == At(content, tagEnd - 1) = "/"

Moved(s, pos, depth) == [s EXCEPT !.pos = pos, !.depth = depth, !.iterations = s.iterations + 1]

Stopped(s) == [s EXCEPT !.done = TRUE]

\* findMatchingCloseTag, one iteration of its while loop
MatchCloseIteration(s) ==
    LET content == s.content
        tagStart == indexOf(content, <<"<">>, s.pos)
        commentEnd == indexOf(content, <<"-", "-", ">">>, tagStart)
        closeLen == CloseTagLen(content, tagStart)
        closes == NameAt(content, tagStart + 2, closeLen - 3) = ScanTag
        nameLen == NameLen(content, tagStart + 1)
        openTagEnd == indexOf(content, <<">">>, tagStart)
    IN  IF ~(s.pos < Len(content) /\ s.depth > 0) \/ tagStart = -1 THEN Stopped(s)
        ELSE IF StartsWithAt(content, <<"<", "!", "-", "-">>, tagStart)
        THEN Moved(s, IF commentEnd # -1 THEN commentEnd + 3 ELSE Len(content), s.depth)
        ELSE IF At(content, tagStart + 1) = "/"
        THEN IF closeLen = 0 THEN Moved(s, tagStart + 1, s.depth)
             ELSE IF closes /\ s.depth - 1 = 0
             THEN Stopped([s EXCEPT !.depth = 0, !.pos = tagStart])
             ELSE Moved(s, tagStart + closeLen, IF closes THEN s.depth - 1 ELSE s.depth)
        ELSE IF nameLen > 0 /\ openTagEnd # -1
        THEN Moved(s, openTagEnd + 1,
                   IF ~EndsSelfClosing(content, openTagEnd)
                      /\ NameAt(content, tagStart + 1, nameLen) = ScanTag
                   THEN s.depth + 1 ELSE s.depth)
        ELSE Moved(s, tagStart + 1, s.depth)

\* findMatchingCloseTag(content, searchStart, tagName) finds a close tag
RECURSIVE MatchCloseRun(_)
MatchCloseRun(s) == IF s.done THEN s ELSE MatchCloseRun(MatchCloseIteration(s))

ClosesFrom(content, searchStart) ==
    MatchCloseRun([NoScan EXCEPT !.content = content, !.pos = searchStart, !.depth = 1]).depth = 0

\* findElementInRange, one iteration of its while loop; the range is the
\* whole text
RangeIteration(s) ==
    LET content == s.content
        rangeEnd == Len(content)
        tagStart == indexOf(content, <<"<">>, s.pos)
        commentEnd == indexOf(content, <<"-", "-", ">">>, tagStart)
        closeEnd == indexOf(content, <<">">>, tagStart)
        nameLen == NameLen(content, tagStart + 1)
        isSelfClosing == EndsSelfClosing(content, closeEnd)
        matches == s.depth = 0 /\ NameAt(content, tagStart + 1, nameLen) = ScanTag
    IN  IF ~(s.pos < rangeEnd) \/ tagStart = -1 \/ tagStart >= rangeEnd THEN Stopped(s)
        ELSE IF StartsWithAt(content, <<"<", "!", "-", "-">>, tagStart)
        THEN Moved(s, IF commentEnd # -1 THEN commentEnd + 3 ELSE rangeEnd, s.depth)
        ELSE IF At(content, tagStart + 1) = "/"
        THEN Moved(s, IF closeEnd # -1 THEN closeEnd + 1 ELSE rangeEnd,
                   IF s.depth > 0 THEN s.depth - 1 ELSE s.depth)
        ELSE IF nameLen = 0 \/ closeEnd = -1 THEN Moved(s, tagStart + 1, s.depth)
        ELSE IF matches /\ s.foundCount = s.targetIndex
                /\ (isSelfClosing \/ ClosesFrom(content, closeEnd + 1))
        THEN Stopped([s EXCEPT !.pos = tagStart])
        ELSE [Moved(s, closeEnd + 1, IF isSelfClosing THEN s.depth ELSE s.depth + 1)
              EXCEPT !.foundCount = IF matches THEN s.foundCount + 1 ELSE s.foundCount]

\* a variant of the iteration over parentInnerContent that stays at a '<'
\* that opens no tag
DirectChildIterationStaying(s) ==
    LET inner == s.content
        i == s.pos
        closeEnd == indexOf(inner, <<">">>, i)
    IN  IF ~(i < Len(inner)) THEN Stopped(s)
        ELSE IF At(inner, i) # "<" THEN Moved(s, i + 1, s.depth)
        ELSE IF closeEnd # -1 THEN Moved(s, closeEnd + 1, s.depth)
        ELSE Moved(s, i, s.depth)

\* applyElementMove, one iteration of the while loop over parentInnerContent
DirectChildIteration(s) ==
    LET inner == s.content
        i == s.pos
        commentEnd == indexOf(inner, <<"-", "-", ">">>, i)
        closeEnd == indexOf(inner, <<">">>, i)
    IN  IF ~(i < Len(inner)) THEN Stopped(s)
        ELSE IF At(inner, i) # "<" THEN Moved(s, i + 1, s.depth)
        ELSE IF StartsWithAt(inner, <<"<", "!", "-", "-">>, i)
        THEN Moved(s, IF commentEnd # -1 THEN commentEnd + 3 ELSE Len(inner), s.depth)
        ELSE IF At(inner, i + 1) = "/"
        THEN Moved(s, IF closeEnd # -1 THEN closeEnd + 1 ELSE Len(inner),
                   IF s.depth > 0 THEN s.depth - 1 ELSE s.depth)
        ELSE IF NameLen(inner, i + 1) > 0 /\ closeEnd # -1
        THEN [Moved(s, closeEnd + 1,
                    IF EndsSelfClosing(inner, closeEnd) THEN s.depth ELSE s.depth + 1)
              EXCEPT !.foundCount = IF s.depth = 0 THEN s.foundCount + 1 ELSE s.foundCount]
        ELSE [Moved(s, i + 1, s.depth)
              EXCEPT !.foundCount = IF NameLen(inner, i + 1) > 0 /\ s.depth = 0
                                    THEN s.foundCount + 1 ELSE s.foundCount]

\* the variables of the scans change, nothing else does
Scanned(scan) ==
    /\ last' = [last EXCEPT !.scan = scan]
    /\ UNCHANGED <<documentText, savedText, pendingChange, lastIdMap, idCounter, session,
                   handled, inflight, docVersion, serial, panel>>

\* a scan is called on a text: findMatchingCloseTag after an open tag
\* (depth 1), findElementInRange for the first or the second match, or the
\* scan of the direct children
StartScan ==
    /\ last.scan.loop = "none"
    /\ \E content \in ScanTexts :
           \/ Scanned([NoScan EXCEPT !.loop = "findMatchingCloseTag", !.content = content,
                                    !.depth = 1])
           \/ \E targetIndex \in {0, 1} :
                  Scanned([NoScan EXCEPT !.loop = "findElementInRange", !.content = content,
                                         !.targetIndex = targetIndex])
           \/ Scanned([NoScan EXCEPT !.loop = "applyElementMove", !.content = content])

MatchCloseStep ==
    /\ last.scan.loop = "findMatchingCloseTag" /\ ~last.scan.done
    /\ Scanned(MatchCloseIteration(last.scan))

RangeStep ==
    /\ last.scan.loop = "findElementInRange" /\ ~last.scan.done
    /\ Scanned(RangeIteration(last.scan))

DirectChildStep ==
    /\ last.scan.loop = "applyElementMove" /\ ~last.scan.done
    /\ Scanned(DirectChildIteration(last.scan))

NextScan ==
    \/ StartScan
    \/ MatchCloseStep
    \/ RangeStep
    \/ DirectChildStep

SpecScan == InitFrom({DocList}) /\ [][NextScan]_vars

\* a scan has gone round its loop at most once for each character
ScanBounded ==
    /\ last.scan.iterations <= Len(last.scan.content)
    /\ last.scan.pos <= Len(last.scan.content)

\* an iteration of a scan that does not end it moves the position forward
ScanAdvances ==
    (last.scan.loop # "none" /\ ~last.scan'.done) => last.scan'.pos > last.scan.pos

\* C37: the scans of findMatchingCloseTag, of findElementInRange and of the
\* direct children in applyElementMove end on every text, also on a
\* comment that is not closed, a tag without its '>' and close tags
\* without their open tags: every iteration moves the position forward,
\* so a scan goes round at most once for each character of the text.
C37_ScansTerminate == []ScanBounded /\ [][ScanAdvances]_vars

\* a scan has ended on a comment that is not closed
C37_Witness ==
    /\ last.scan.done
    /\ last.scan.content = <<"p", "<", "!", "-", "-">>
    /\ last.scan.iterations = 1

\* ------------------------------------------------------------------------
\* HtmlParser: the parse with the paths of buildPath, and moveElement.
\* ------------------------------------------------------------------------
\* buildPath: '#' + id, or the tag name with the first class
SelectorOf(t) == IF t.id # "" THEN Seg("", t.id, "", 0) ELSE Seg(t.tag, "", t.cls, 0)

\* HtmlParser.parse: the elements in the order of their open tags, each
\* with the path of buildPath and the offsets of its open tag
\* (parser.startIndex) and of the end of its close tag (parser.endIndex
\* + 1).  st holds the elements and the stack of the open ones.
RECURSIVE HtmlParseScan(_, _, _)
HtmlParseScan(content, i, st) ==
    IF i >= Len(content) THEN st.elements
    ELSE LET t == CharAt(content, i) IN
         IF t.k = "open"
         THEN LET element == [tagName |-> t.tag,
                              path |-> [j \in 1 .. Len(st.stack) |-> st.elements[st.stack[j]].selector]
                                          \o <<SelectorOf(t)>>,
                              selector |-> SelectorOf(t),
                              startOffset |-> i, endOffset |-> 0]
              IN  HtmlParseScan(content, i + 1,
                                [elements |-> Append(st.elements, element),
                                 stack |-> Append(st.stack, Len(st.elements) + 1)])
         ELSE IF t.k = "close" /\ Len(st.stack) > 0
         THEN HtmlParseScan(content, i + 1,
                            [elements |-> [st.elements EXCEPT ![st.stack[Len(st.stack)]].endOffset = i + 1],
                             stack |-> SubSeq(st.stack, 1, Len(st.stack) - 1)])
         ELSE HtmlParseScan(content, i + 1, st)

HtmlParse(content) == HtmlParseScan(content, 0, [elements |-> <<>>, stack |-> <<>>])

NoElement == [tagName |-> "", path |-> <<>>, selector |-> Seg("", "", "", 0),
              startOffset |-> 0, endOffset |-> 0]

\* HtmlParser.findElementByPath: the first element, in the order of the
\* open tags, whose path is the given one
searchByPath(elements, path) ==
    With(FirstIdx({n \in 1 .. Len(elements) : elements[n].path = path}), LAMBDA n :
         IF n = -1 THEN [found |-> FALSE, element |-> NoElement]
         ELSE [found |-> TRUE, element |-> elements[n]])

\* HtmlParser.moveElement.  insertPos is one character before the close tag
\* of the new parent (endOffset - `</tag>`.length - 1), which in the texts
\* of ParserDocs is the unit before the close tag.
moveElement(content, element, newParentPath, newIndex) ==
    LET elementHtml == Substring(content, element.startOffset, element.endOffset)
        removed == Substring(content, 0, element.startOffset)
                       \o SubstringFrom(content, element.endOffset)
        newParent == searchByPath(HtmlParse(removed), newParentPath)
        insertPos == newParent.element.endOffset - 1 - 1
    IN  IF newParent.found
        THEN Substring(removed, 0, insertPos) \o <<NL>> \o elementHtml
                 \o SubstringFrom(removed, insertPos)
        ELSE removed

ParserDocs == {DocList, DocBody}

ParserPaths ==
    {<<Seg("ul", "", "", 0)>>, <<Seg("ul", "", "", 0), Seg("li", "", "", 0)>>,
     <<Seg("body", "", "", 0)>>, <<Seg("body", "", "", 0), Seg("div", "", "", 0)>>,
     <<Seg("body", "", "", 0), Seg("", "reviews", "", 0)>>, <<Seg("nav", "", "", 0)>>}

\* HtmlParser.moveElement on an element of the parse of the document; the
\* text it returns becomes the text of the document
MoveElement ==
    /\ handled < MaxCalls
    /\ \E n \in 1 .. Len(HtmlParse(documentText)), newParentPath \in ParserPaths,
          newIndex \in {0, 1} :
           LET element == HtmlParse(documentText)[n]
               text == moveElement(documentText, element, newParentPath, newIndex)
           IN  /\ handled' = handled + 1
               /\ documentText' = text
               /\ Replaced(text)
               /\ last' = [Handled(Request("elementMoved", element.path, NoId, newParentPath,
                                           newIndex, <<>>, <<>>),
                                   <<StepOf(documentText, NoPending,
                                            Computed(text, "Element Rearranged"),
                                            [returned |-> TRUE, contentToApply |-> text,
                                             pending |-> NoPending])>>)
                           EXCEPT !.scan = [NoScan EXCEPT !.loop = "moveElement",
                                                          !.start = element.startOffset,
                                                          !.end = element.endOffset]]
               /\ UNCHANGED <<savedText, pendingChange, session, inflight, docVersion, serial>>

NextParser == MoveElement

SpecParser == InitFrom(ParserDocs) /\ [][NextParser]_vars

\* the span of the element that the last move took out
MovedHtml == Substring(last.before, last.scan.start, last.scan.end)

MovedFrom == Substring(last.before, 0, last.scan.start) \o SubstringFrom(last.before, last.scan.end)

\* text is rest with html put in at some offset, after a line break or not
PutIn(text, rest, html) ==
    \E at \in 0 .. Len(rest), lead \in {<<>>, <<NL>>, <<NL, WS>>} :
        text = Substring(rest, 0, at) \o lead \o html \o SubstringFrom(rest, at)

\* C35: the text a move returns holds the source text of the moved element
\* at its new place, or, when the new parent is not found in the text
\* without the element, is the text the move was given; it is never the
\* text without the element.
C35_MoveKeepsElement ==
    last.scan.loop = "moveElement" =>
        LET returned == last.steps[1].computed.newContent
        IN  /\ returned # MovedFrom
            /\ \/ returned = last.before
               \/ PutIn(returned, MovedFrom, MovedHtml)

\* C34: the path of the elementMoved request of the first drag designates,
\* in the source text, whose order is that of the page before the drag,
\* the element the user dragged: its selector carries the ordinal the
\* element had when it was selected, not the ordinal it has in the page
\* after the moves of the drag.
C34_PathDesignatesDragged ==
    LET w == panel.webview
    IN  \A i \in 1 .. Len(w.posted) :
            w.posted[i].release = 1 => w.posted[i].path = getElementPath(w.dragged[1])

\* ------------------------------------------------------------------------
\* The style panel of the webview: the edits are buffered, Save posts them
\* as one batch, Cancel drops them.
\* ------------------------------------------------------------------------
\* the batches posted in a run
MaxBatches == 1

StyleValues == {"red", "blue"}

TextContents == {"X", "Y"}

\* resetPendingChanges
resetPendingChanges(w) == [w EXCEPT !.style.buffer = NoBuffer, !.style.hasPendingChanges = FALSE]

Hidden(w) == [w EXCEPT !.style.shown = FALSE, !.style.stylePanelVisible = FALSE]

\* cancelStyleChanges: nothing without a selected element; the buffer is
\* reset and the panel hidden (hideStylePanel, with nothing pending)
cancelStyleChanges(w) == IF ~w.selectedElement THEN w ELSE Hidden(resetPendingChanges(w))

\* hideStylePanel: with pending changes the user is asked; confirmDiscard
\* is the answer of confirm()
hideStylePanel(w, confirmDiscard) ==
    IF w.style.hasPendingChanges /\ ~confirmDiscard THEN w
    ELSE IF w.style.hasPendingChanges THEN Hidden(cancelStyleChanges(w))
    ELSE Hidden(w)

\* populateStylePanel: the buffer is reset for the element
populateStylePanel(w) == IF ~w.selectedElement THEN w ELSE resetPendingChanges(w)

\* showStylePanel
showStylePanel(w) ==
    IF ~w.selectedElement THEN w
    ELSE [populateStylePanel(w) EXCEPT !.style.shown = TRUE, !.style.stylePanelVisible = TRUE]

\* saveStyleChanges: the batch holds pendingStyleChanges and, when it is
\* not null, pendingTextContent
saveStyleChanges(w) ==
    IF ~w.selectedElement \/ ~w.style.hasPendingChanges THEN w
    ELSE Hidden(resetPendingChanges([w EXCEPT !.style.sent = Append(w.style.sent, w.style.buffer)]))

Clicked(w, click) == Drag([w EXCEPT !.style.click = click])

\* selectElement of the static page: the panel, when open, is populated
SelectElement ==
    LET w == [panel.webview EXCEPT !.selectedElement = TRUE]
    IN  /\ ~isIframe
        /\ Clicked(IF w.style.stylePanelVisible THEN populateStylePanel(w) ELSE w, "select")

\* handleMessage, bridgeElementSelected: selectedElement is a new proxy
BridgeElementSelected ==
    /\ isIframe
    /\ Clicked([panel.webview EXCEPT !.selectedElement = TRUE], "select")

\* deselectElement (a click outside the content, or after a delete):
\* hideContextToolbar hides the style panel
DeselectElement ==
    /\ panel.webview.selectedElement
    /\ \E confirmDiscard \in BOOLEAN :
           Clicked(hideStylePanel([panel.webview EXCEPT !.selectedElement = FALSE],
                                  confirmDiscard), "deselect")

\* toggleStylePanel, the edit button of the toolbar of the selected element
ToggleStylePanel ==
    LET w == [panel.webview EXCEPT !.style.stylePanelVisible = ~@]
    IN  /\ panel.webview.selectedElement
        /\ \E confirmDiscard \in BOOLEAN :
               Clicked(IF w.style.stylePanelVisible THEN showStylePanel(w)
                       ELSE hideStylePanel(w, confirmDiscard), "toggle")

\* applyStyle(property, value), from an input of the panel
ApplyStyle ==
    LET w == panel.webview
    IN  /\ w.style.shown
        /\ \E property \in StyleProps, value \in StyleValues :
               Clicked(IF ~w.selectedElement THEN w
                       ELSE [w EXCEPT !.style.buffer.pendingStyleChanges[property] = value,
                                      !.style.hasPendingChanges = TRUE], "edit")

\* the input listener of the content textarea
TextInput ==
    LET w == panel.webview
    IN  /\ w.style.shown
        /\ \E value \in TextContents :
               Clicked([w EXCEPT !.style.buffer.pendingTextContent = value,
                                 !.style.hasPendingChanges = TRUE], "edit")

\* the Save button, enabled when hasPendingChanges
SaveClick ==
    LET w == panel.webview
    IN  /\ w.style.shown /\ w.style.hasPendingChanges
        /\ Len(w.style.sent) < MaxBatches
        /\ Clicked(saveStyleChanges(w), "save")

\* the Cancel button
CancelClick ==
    /\ panel.webview.style.shown
    /\ Clicked(cancelStyleChanges(panel.webview), "cancel")

NextStyle ==
    \/ SelectElement
    \/ BridgeElementSelected
    \/ DeselectElement
    \/ ToggleStylePanel
    \/ ApplyStyle
    \/ TextInput
    \/ SaveClick
    \/ CancelClick

SpecStyle == InitDrag /\ [][NextStyle]_vars

\* C32: the edits of the style panel are buffered: a batch is posted to the
\* extension only by Save; Save posts one batch that holds the buffered
\* value of every property and the buffered text and empties the buffer;
\* Cancel posts nothing and empties the buffer.
C32_EditsBufferedUntilSave ==
    [][LET st == panel.webview.style
       IN  /\ st'.sent # st.sent => st'.click = "save"
           /\ st'.click = "save" => st'.sent = Append(st.sent, st.buffer) /\ st'.buffer = NoBuffer
           /\ st'.click = "cancel" => st'.sent = st.sent /\ st'.buffer = NoBuffer]_vars

\* ------------------------------------------------------------------------
\* The panel is disposed while handlers and a timer are still to run.
\* ------------------------------------------------------------------------
PanelStep(life) ==
    /\ panel' = [panel EXCEPT !.life = life]
    /\ UNCHANGED <<documentText, savedText, pendingChange, lastIdMap, idCounter, last, session,
                   handled, inflight, docVersion, serial>>

\* this._panel.webview.postMessage({type})
PostMessage(life, type) ==
    [life EXCEPT !.posted = Append(life.posted, [type |-> type, isDisposed |-> life.isDisposed])]

\* _scheduleHmrFallback: the timer is cleared and set
scheduleHmrFallback(life) == [life EXCEPT !.hmrFallbackTimer = TRUE]

\* _onElementDeleted and _onElementDuplicated after their await of the
\* edit, when it succeeded: the static page is told, the page of a dev
\* server gets the fallback timer
Continuation(life, type) ==
    IF ~panel.devServerUrl THEN PostMessage(life, type) ELSE scheduleHmrFallback(life)

\* the handler of the last delete or duplicate request goes on after its
\* await
HandlerContinues ==
    /\ last.request.op \in {"elementDeleted", "elementDuplicated"}
    /\ panel.life.continued # handled
    /\ With([panel.life EXCEPT !.continued = handled], LAMBDA life :
            PanelStep(IF ~last.steps[1].returned THEN life
                      ELSE Continuation(life, IF last.request.op = "elementDeleted"
                                              THEN "optimisticDelete"
                                              ELSE "optimisticDuplicate")))

\* the callback of the timer of _scheduleHmrFallback
HmrFallback ==
    /\ panel.life.hmrFallbackTimer
    /\ PanelStep([PostMessage(panel.life, "forceReload") EXCEPT !.hmrFallbackTimer = FALSE])

\* PreviewPanel.dispose
Dispose ==
    /\ ~panel.life.isDisposed
    /\ PanelStep([panel.life EXCEPT !.isDisposed = TRUE,
                                    !.shown = <<panel.html, panel.injected>>])

NextDispose ==
    \/ UpdateDocument
    \/ InitializeContent
    \/ PanelElementDeleted
    \/ PanelElementDuplicated
    \/ HandlerContinues
    \/ HmrFallback
    \/ Dispose

InitDispose ==
    \E devServerUrl \in BOOLEAN :
        InitShown({DocList}, devServerUrl, IF devServerUrl THEN "iframe" ELSE "inline")

SpecDispose == InitDispose /\ [][NextDispose]_vars

\* C38: after dispose() no message is posted to the webview of the panel
\* and its HTML is not written: the timer of the HMR fallback set before,
\* and a handler of an edit or a start of the dev server that ends after,
\* do nothing to the disposed panel.
C38_NothingAfterDispose ==
    /\ \A i \in 1 .. Len(panel.life.posted) : ~panel.life.posted[i].isDisposed
    /\ panel.life.isDisposed => panel.life.shown = <<panel.html, panel.injected>>

\* ------------------------------------------------------------------------
\* DevServerManager: start() and stop() called at any time, the output and
\* the exit of the processes, and the timers.
\* ------------------------------------------------------------------------
\* the calls of start() in a run
MaxStarts == 3

ServerStep(server) ==
    /\ panel' = [panel EXCEPT !.server = server]
    /\ UNCHANGED <<documentText, savedText, pendingChange, lastIdMap, idCounter, last, session,
                   handled, inflight, docVersion, serial>>

\* a call of start(): pid is the process it spawned (0: none), waiting
\* tells that its interval and its timer are pending, signalled (history)
\* that a readiness signal of the recorded process had been observed when
\* the promise was resolved
Call(pid, state, waiting, signalled) ==
    [pid |-> pid, state |-> state, waiting |-> waiting, signalled |-> signalled]

\* resolve or reject of the promise of the start() that spawned pid; a
\* settled promise stays as it is
Settle(calls, pid, state) ==
    [c \in 1 .. Len(calls) |->
        IF calls[c].pid = pid /\ calls[c].state = "pending"
        THEN [calls[c] EXCEPT !.state = state, !.signalled = state = "resolved"]
        ELSE calls[c]]

\* the readiness of process p is taken note of: _currentUrl is set and the
\* promise resolved
Ready(sv, p) ==
    [sv EXCEPT !.currentUrl = p, !.serverStarted = sv.serverStarted \cup {p},
               !.isStarting = FALSE, !.timeout = sv.timeout \ {p},
               !.calls = Settle(sv.calls, p, "resolved")]

\* start(): waits when a start is going on, returns the URL when a process
\* is recorded, and spawns otherwise, unless the project type is unknown
Start ==
    LET sv == panel.server
        pid == sv.spawned + 1
    IN  /\ Len(sv.calls) < MaxStarts
        /\ IF sv.isStarting
           THEN ServerStep([sv EXCEPT !.calls = Append(sv.calls, Call(0, "pending", TRUE, FALSE))])
           ELSE IF sv.process # 0
           THEN ServerStep([sv EXCEPT !.calls = Append(sv.calls,
                                                       Call(0, "resolved", FALSE,
                                                            sv.process \in sv.serverStarted))])
           ELSE \E known \in BOOLEAN :
                    ServerStep(IF ~known
                               THEN [sv EXCEPT !.calls = Append(sv.calls,
                                                                Call(0, "rejected", FALSE, FALSE))]
                               ELSE [sv EXCEPT !.isStarting = TRUE, !.process = pid,
                                               !.spawned = pid, !.alive = sv.alive \cup {pid},
                                               !.timeout = sv.timeout \cup {pid},
                                               !.calls = Append(sv.calls,
                                                                Call(pid, "pending", FALSE, FALSE))])

\* stdout of process p with 'localhost:<port>'
StdoutUrl ==
    \E p \in panel.server.alive \ panel.server.serverStarted :
        ServerStep(Ready(panel.server, p))

\* stdout of process p with 'ready in' and no port: the 500 ms timer
StdoutReady ==
    \E p \in panel.server.alive \ panel.server.serverStarted :
        /\ p \notin panel.server.fallback
        /\ ServerStep([panel.server EXCEPT !.fallback = panel.server.fallback \cup {p}])

\* the 500 ms timer of process p
FallbackTimer ==
    \E p \in panel.server.fallback :
        With([panel.server EXCEPT !.fallback = panel.server.fallback \ {p}], LAMBDA sv :
             ServerStep(IF p \in sv.serverStarted THEN sv ELSE Ready(sv, p)))

\* the 30 s timer of the start() that spawned p
StartupTimeout ==
    \E p \in panel.server.timeout :
        With([panel.server EXCEPT !.timeout = panel.server.timeout \ {p}], LAMBDA sv :
             ServerStep(IF p \in sv.serverStarted THEN sv
                        ELSE [sv EXCEPT !.isStarting = FALSE,
                                        !.calls = Settle(sv.calls, p, "rejected")]))

\* the exit handler of process p
Exited(sv, p) ==
    LET cleared == [sv EXCEPT !.alive = sv.alive \ {p}, !.isStarting = FALSE,
                              !.currentUrl = 0, !.process = 0]
    IN  IF p \in sv.serverStarted THEN cleared
        ELSE [cleared EXCEPT !.timeout = sv.timeout \ {p},
                             !.calls = Settle(sv.calls, p, "rejected")]

\* process p exits, killed or by itself
Exit == \E p \in panel.server.alive : ServerStep(Exited(panel.server, p))

\* stop(): the recorded process is killed and forgotten
Stop ==
    LET sv == panel.server
    IN  /\ sv.process # 0
        /\ ServerStep([sv EXCEPT !.process = 0, !.stopped = sv.stopped \cup {sv.process}])

\* the interval of a waiting start(): resolved once _currentUrl is set
WaitCheck ==
    LET sv == panel.server
    IN  \E c \in 1 .. Len(sv.calls) :
            /\ sv.calls[c].waiting /\ sv.calls[c].state = "pending"
            /\ sv.currentUrl # 0
            /\ ServerStep([sv EXCEPT !.calls[c] = Call(0, "resolved", TRUE,
                                                       sv.process \in sv.serverStarted)])

\* the 30 s timer of a waiting start()
WaitTimeout ==
    LET sv == panel.server
    IN  \E c \in 1 .. Len(sv.calls) :
            /\ sv.calls[c].waiting
            /\ ServerStep([sv EXCEPT !.calls[c] =
                              Call(0, IF sv.calls[c].state = "pending" THEN "rejected"
                                      ELSE sv.calls[c].state, FALSE, sv.calls[c].signalled)])

NextServer ==
    \/ Start
    \/ StdoutUrl
    \/ StdoutReady
    \/ FallbackTimer
    \/ StartupTimeout
    \/ Exit
    \/ Stop
    \/ WaitCheck
    \/ WaitTimeout

SpecServer == InitFrom({DocList}) /\ [][NextServer]_vars

\* C31: a call of start() resolves with a URL only after a readiness signal
\* of the server process has been observed, also when it is made while
\* another start is going on or after an earlier start timed out (every
\* call settles, by its 30 s timer at the latest).
C31_ResolvesAfterSignal ==
    \A c \in 1 .. Len(panel.server.calls) :
        panel.server.calls[c].state = "resolved" => panel.server.calls[c].signalled

\* C39: at most one server process that was not stopped is alive; the
\* recorded process and URL are those of the process spawned last; and
\* while that process is alive and was not stopped it stays recorded,
\* whatever the order of the calls of start() and stop(), the timeouts
\* and the exit of an earlier process.
C39_OneServerProcess ==
    LET sv == panel.server
    IN  /\ Cardinality(sv.alive \ sv.stopped) <= 1
        /\ sv.process \in {0, sv.spawned}
        /\ sv.currentUrl \in {0, sv.spawned}
        /\ (sv.spawned \in sv.alive \ sv.stopped) => sv.process = sv.spawned

====
